---- MODULE Spec2Model ----
(***************************************************************************)
(* Citadel Situation Monitor backend: src/backend/main.py (the adapters,   *)
(* the rate tracker globals, get_dashboard, ConnectionManager and the      *)
(* /ws loop) and src/backend/config.py (the configuration model).          *)
(*                                                                         *)
(* Concurrency is that of one asyncio event loop: a coroutine runs without *)
(* interruption from one await to the next, so every action below is the   *)
(* code between two suspension points of one coroutine.                    *)
(*                                                                         *)
(* Units: clock and timestamps are whole seconds; bandwidth rates are      *)
(* hundredths of a megabit per second (260 stands for 2.60 Mbps), the      *)
(* precision round(x, 2) keeps; healthScore is in tenths of a percent.     *)
(***************************************************************************)
EXTENDS Integers, Sequences, FiniteSets, TLC

VARIABLES
    config,                     \* config.py: Config, loaded once at startup
    prom,                       \* main.py:26   Prometheus client initialised?
    k8s_core_v1,                \* main.py:34   Kubernetes client initialised?
    FORTIGATE_API_KEY,          \* main.py:81   "" when the token is absent
    world,                      \* what the backing systems answer (fixed per run)
    down,                       \* adapters whose backing calls fail right now
    fwTable,                    \* the appliance's live interface table
    clock,                      \* datetime.now(), in seconds
    active_connections,         \* main.py:110  manager.active_connections
    previous_interface_stats,   \* main.py:137  _previous_interface_stats
    last_interface_poll,        \* main.py:138  _last_interface_poll
    ws,                         \* per caller: websocket_endpoint coroutine
    rest,                       \* per caller: REST handler in flight
    dash,                       \* per caller: get_dashboard invocation
    net,                        \* per caller: get_network_status invocation
    bcast                       \* ConnectionManager.broadcast invocation

vars == <<config, prom, k8s_core_v1, FORTIGATE_API_KEY, world, down, fwTable,
          clock, active_connections, previous_interface_stats,
          last_interface_poll, ws, rest, dash, net, bcast>>

startupVars == <<config, prom, k8s_core_v1, FORTIGATE_API_KEY, world>>
trackerVars == <<previous_interface_stats, last_interface_poll>>

(***************************************************************************)
(* Bounds of the model.                                                    *)
(***************************************************************************)
\* Concurrent callers (websocket connections or REST requests in flight).
MaxCallers == 2
\* How many times the clock advances in one run.
MaxTicks == 1

Callers == 1..MaxCallers

\* The clock advances by the loop's sleep interval (asyncio.sleep(5)).
SleepSeconds == 5

\* Optional values: None is the empty tuple, Some(v) the one-element tuple.
None == <<>>
Some(v) == <<v>>

Max(a, b) == IF a >= b THEN a ELSE b

\* dict.get(key, default)
Get(d, key, default) == IF key \in DOMAIN d THEN d[key] ELSE default

(***************************************************************************)
(* round(): nearest, ties to even, of the rational num / den scaled by     *)
(* scale (100 for round(x, 2), 10 for round(x, 1)).                        *)
(***************************************************************************)
RoundScaled(num, den, scale) ==
    LET n == num * scale
        q == n \div den
        r == n % den
    IN  IF 2 * r < den THEN q
        ELSE IF 2 * r > den THEN q + 1
        ELSE IF q % 2 = 0 THEN q ELSE q + 1

(***************************************************************************)
(* Text.  A string the code looks into (split, replace, in, len, slicing)  *)
(* is a sequence of one-character strings; a string it only passes on is   *)
(* a string.                                                               *)
(***************************************************************************)
UpperChars == <<"A", "B", "C", "D", "E", "F", "G", "H", "I", "J", "K", "L", "M",
                "N", "O", "P", "Q", "R", "S", "T", "U", "V", "W", "X", "Y", "Z">>
LowerChars == <<"a", "b", "c", "d", "e", "f", "g", "h", "i", "j", "k", "l", "m",
                "n", "o", "p", "q", "r", "s", "t", "u", "v", "w", "x", "y", "z">>

\* str.lower()
lower(s) ==
    [i \in 1..Len(s) |->
        IF \E j \in 1..Len(UpperChars) : UpperChars[j] = s[i]
        THEN LowerChars[CHOOSE j \in 1..Len(UpperChars) : UpperChars[j] = s[i]]
        ELSE s[i]]

\* kw in s
Contains(s, kw) ==
    \E i \in 0..(Len(s) - Len(kw)) : SubSeq(s, i + 1, i + Len(kw)) = kw

\* s.replace(a, b) for single characters a and b
replace(s, a, b) == [i \in 1..Len(s) |-> IF s[i] = a THEN b ELSE s[i]]

\* s.split(":")[0] if ":" in s else s
BeforeColon(s) ==
    IF \E i \in 1..Len(s) : s[i] = ":"
    THEN SubSeq(s, 1, (CHOOSE i \in 1..Len(s) :
                          s[i] = ":" /\ \A j \in 1..(i - 1) : s[j] # ":") - 1)
    ELSE s

\* The keyword lists of categorize_alert, in the order it tries them.
AlertKeywords ==
    <<[category |-> "resources",
       keywords |-> {<<"c", "p", "u">>, <<"m", "e", "m", "o", "r", "y">>, <<"r", "a", "m">>, <<"d", "i", "s", "k">>,
                     <<"f", "i", "l", "e", "s", "y", "s", "t", "e", "m">>, <<"s", "t", "o", "r", "a", "g", "e">>}],
      [category |-> "kubernetes",
       keywords |-> {<<"p", "o", "d">>, <<"c", "o", "n", "t", "a", "i", "n", "e", "r">>, <<"d", "e", "p", "l", "o", "y", "m", "e", "n", "t">>, <<"r", "e", "p", "l", "i", "c", "a">>,
                     <<"k", "u", "b", "e">>, <<"k", "u", "b", "e", "r", "n", "e", "t", "e", "s">>}],
      [category |-> "infrastructure",
       keywords |-> {<<"n", "o", "d", "e">>, <<"h", "o", "s", "t">>, <<"s", "e", "r", "v", "e", "r">>, <<"i", "n", "s", "t", "a", "n", "c", "e">>,
                     <<"m", "a", "c", "h", "i", "n", "e">>}],
      [category |-> "network",
       keywords |-> {<<"n", "e", "t", "w", "o", "r", "k">>, <<"c", "o", "n", "n", "e", "c", "t", "i", "o", "n">>, <<"d", "n", "s">>, <<"h", "t", "t", "p">>,
                     <<"t", "c", "p">>, <<"l", "a", "t", "e", "n", "c", "y">>}]>>

\* A categorisation that compares the name as written, without lower().
categorize_alert_as_written(alertname) ==
    LET Hit(i) == \E kw \in AlertKeywords[i].keywords : Contains(alertname, kw)
    IN  IF \E i \in 1..Len(AlertKeywords) : Hit(i)
        THEN AlertKeywords[CHOOSE i \in 1..Len(AlertKeywords) :
                              Hit(i) /\ \A j \in 1..(i - 1) : ~Hit(j)].category
        ELSE "general"

\* main.py:144-157
categorize_alert(alertname) ==
    LET alertname_lower == lower(alertname)
        Hit(i) == \E kw \in AlertKeywords[i].keywords : Contains(alertname_lower, kw)
    IN  IF \E i \in 1..Len(AlertKeywords) : Hit(i)
        THEN AlertKeywords[CHOOSE i \in 1..Len(AlertKeywords) :
                              Hit(i) /\ \A j \in 1..(i - 1) : ~Hit(j)].category
        ELSE "general"

\* An age format whose limits belong to the smaller unit.
format_time_ago_inclusive(total_seconds) ==
    IF total_seconds < 0 THEN "0s"
    ELSE IF total_seconds <= 60 THEN ToString(total_seconds) \o "s"
    ELSE IF total_seconds <= 3600 THEN ToString(total_seconds \div 60) \o "m"
    ELSE IF total_seconds <= 86400 THEN ToString(total_seconds \div 3600) \o "h"
    ELSE ToString(total_seconds \div 86400) \o "d"

\* main.py:160-173, on a whole number of seconds (int(delta.total_seconds())).
format_time_ago(total_seconds) ==
    IF total_seconds < 0 THEN "0s"
    ELSE IF total_seconds < 60 THEN ToString(total_seconds) \o "s"
    ELSE IF total_seconds < 3600 THEN ToString(total_seconds \div 60) \o "m"
    ELSE IF total_seconds < 86400 THEN ToString(total_seconds \div 3600) \o "h"
    ELSE ToString(total_seconds \div 86400) \o "d"

(***************************************************************************)
(* format_uptime (main.py:176-190)                                         *)
(***************************************************************************)
format_uptime(seconds) ==
    LET days    == seconds \div 86400
        hours   == (seconds % 86400) \div 3600
        minutes == (seconds % 3600) \div 60
    IN  IF seconds <= 0 THEN "Unknown"
        ELSE IF days > 0 THEN ToString(days) \o "d " \o ToString(hours) \o "h"
        ELSE IF hours > 0 THEN ToString(hours) \o "h " \o ToString(minutes) \o "m"
        ELSE ToString(minutes) \o "m"

(***************************************************************************)
(* The backing systems as the adapters see them.  A call of an adapter in  *)
(* down raises (transport error or timeout).  A listing of an adapter in   *)
(* world.malformed arrives, but reading its last item raises.              *)
(***************************************************************************)
Adapters == {"services", "nodes", "alerts", "cluster", "activity", "network"}

\* What a coroutine hands to whoever awaits it.
Returned(v) == [raised |-> FALSE, value |-> v]
Raised == [raised |-> TRUE, value |-> <<>>]

Listing(adapter, items) ==
    IF adapter \in down
    THEN [ok |-> FALSE, malformed |-> FALSE, items |-> <<>>]
    ELSE [ok |-> TRUE, malformed |-> adapter \in world.malformed, items |-> items]

\* The items a loop over the listing gets through before it raises, if it does.
Readable(resp) ==
    IF resp.malformed THEN SubSeq(resp.items, 1, Len(resp.items) - 1)
    ELSE resp.items

(***************************************************************************)
(* get_node_metrics (main.py:207-300)                                      *)
(***************************************************************************)
\* main.py:230-234
ReadyOf(node) ==
    IF \E i \in 1..Len(node.conditions) : node.conditions[i].type = "Ready"
    THEN LET i == CHOOSE i \in 1..Len(node.conditions) :
                     /\ node.conditions[i].type = "Ready"
                     /\ \A j \in 1..(i - 1) : node.conditions[j].type # "Ready"
         IN  IF node.conditions[i].status = "True" THEN "Ready" ELSE "NotReady"
    ELSE "NotReady"

\* main.py:224-237: the dict filled node by node until list_node or a node
\* raises.
K8sNodeStatus(adapter) ==
    IF config.kubernetes.enabled /\ k8s_core_v1
    THEN LET k8s_nodes == Listing(adapter, world.k8sNodes)
             items     == IF k8s_nodes.ok THEN Readable(k8s_nodes) ELSE <<>>
         IN  [name \in {items[i].name : i \in 1..Len(items)} |->
                ReadyOf(items[CHOOSE i \in 1..Len(items) :
                                 /\ items[i].name = name
                                 /\ \A j \in (i + 1)..Len(items) :
                                       items[j].name # name])]
    ELSE <<>>

\* instance=~"{node_ip}:.*": an anchored match in which "." stands for any
\* character.
MatchesInstance(instance, node_ip) ==
    /\ Len(instance) > Len(node_ip)
    /\ \A i \in 1..Len(node_ip) : node_ip[i] = "." \/ node_ip[i] = instance[i]
    /\ instance[Len(node_ip) + 1] = ":"

\* main.py:252-277: one custom_query and the float() of its first sample, in
\* hundredths of a percent; None when the query raises, matches nothing or
\* its value cannot be parsed.
PromSample(metric, node_ip) ==
    LET result == Listing("nodes", SelectSeq(world.promSeries,
                     LAMBDA s : s.metric = metric /\ MatchesInstance(s.instance, node_ip)))
    IN  IF ~result.ok \/ result.items = <<>> \/ result.malformed THEN None
        ELSE Some(result.items[1].value)

\* A health rule that looks at the metrics first.
NodeHealthMetricsFirst(status, cpu_usage, ram_usage) ==
    IF cpu_usage = None /\ ram_usage = None THEN "unknown"
    ELSE IF status = "NotReady" THEN "error"
    ELSE IF (cpu_usage # None /\ cpu_usage[1] >= 8000)
            \/ (ram_usage # None /\ ram_usage[1] >= 8500) THEN "warning"
    ELSE "healthy"

\* main.py:279-288
NodeHealth(status, cpu_usage, ram_usage) ==
    LET has_metrics == cpu_usage # None \/ ram_usage # None
    IN  IF status = "NotReady" THEN "error"
        ELSE IF ~has_metrics THEN "unknown"
        ELSE IF (cpu_usage # None /\ cpu_usage[1] >= 8000)
                \/ (ram_usage # None /\ ram_usage[1] >= 8500) THEN "warning"
        ELSE "healthy"

\* round(x, 1) of an optional value in hundredths, in tenths.
RoundTenth(x) == IF x # None THEN Some(RoundScaled(x[1], 100, 10)) ELSE None

\* main.py:239-298: one pass of the loop over config.prometheus.nodes.
NodeEntry(node_config, k8s_node_status) ==
    LET node_ip    == BeforeColon(node_config.host)
        status     == Get(k8s_node_status, node_config.name, "Unknown")
        cpu_usage  == IF prom THEN PromSample("cpu", node_ip) ELSE None
        ram_usage  == IF prom THEN PromSample("ram", node_ip) ELSE None
        disk_usage == IF prom THEN PromSample("disk", node_ip) ELSE None
    IN  [name |-> node_config.name,
         ip |-> node_ip,
         status |-> status,
         cpu |-> RoundTenth(cpu_usage),
         ram |-> RoundTenth(ram_usage),
         disk |-> RoundTenth(disk_usage),
         health |-> NodeHealth(status, cpu_usage, ram_usage)]

get_node_metrics ==
    IF ~config.prometheus.enabled \/ config.prometheus.nodes = <<>>
    THEN Returned(<<>>)
    ELSE LET k8s_node_status == K8sNodeStatus("nodes")
         IN  Returned([i \in 1..Len(config.prometheus.nodes) |->
                          NodeEntry(config.prometheus.nodes[i], k8s_node_status)])

(***************************************************************************)
(* get_active_alerts (main.py:303-338)                                     *)
(***************************************************************************)
\* main.py:318-334
AlertEntry(item, now) ==
    LET metric      == Get(item, "metric", <<>>)
        alertname   == Get(metric, "alertname", <<"U", "n", "k", "n", "o", "w", "n">>)
        instance    == Get(metric, "instance", <<>>)
        severity    == Get(metric, "severity", "warning")
        description == Get(metric, "description",
                           Get(metric, "summary", <<"A", "l", "e", "r", "t", ":", " ">> \o alertname))
    IN  [id |-> replace(replace(alertname \o <<"_">> \o instance, ":", "_"), "/", "_"),
         alertname |-> alertname,
         severity |-> severity,
         instance |-> instance,
         description |-> description,
         category |-> categorize_alert(alertname),
         time |-> now]

\* The adapter without its try/except: a failing query raises out of it.
get_active_alerts_unguarded ==
    IF ~config.prometheus.enabled \/ ~prom THEN Returned(<<>>)
    ELSE LET result == Listing("alerts", world.promAlerts)
         IN  IF ~result.ok \/ result.malformed THEN Raised
             ELSE Returned([i \in 1..Len(result.items) |->
                              AlertEntry(result.items[i], clock)])

get_active_alerts ==
    IF ~config.prometheus.enabled \/ ~prom THEN Returned(<<>>)
    ELSE LET result == Listing("alerts", world.promAlerts)
             items  == IF result.ok THEN Readable(result) ELSE <<>>
         IN  Returned([i \in 1..Len(items) |-> AlertEntry(items[i], clock)])

(***************************************************************************)
(* get_cluster_overview (main.py:416-468)                                  *)
(***************************************************************************)
\* main.py:424-429
ClusterInit ==
    [pods |-> [running |-> 0, pending |-> 0, failed |-> 0, total |-> 0],
     namespaces |-> 0,
     nodes |-> 0,
     nodesReady |-> 0]

\* How many pods of a list are in one of the given phases.
CountPhase(items, phases) ==
    Cardinality({i \in 1..Len(items) : items[i].phase \in phases})

\* The three calls of get_cluster_overview; one of them in down raises, one of
\* them in world.malformed returns a list whose last item cannot be read.
ListingCalls == {"list_pod_for_all_namespaces", "list_namespace", "list_node"}

ClusterListing(call, items) ==
    IF "cluster" \in down \/ call \in down
    THEN [ok |-> FALSE, malformed |-> FALSE, items |-> <<>>]
    ELSE [ok |-> TRUE,
          malformed |-> "cluster" \in world.malformed \/ call \in world.malformed,
          items |-> items]

\* A tally of the pods that leaves phase Unknown out of failed.
ApplyPodsFailedOnly(overview, pods) ==
    IF ~pods.ok THEN overview
    ELSE LET items == Readable(pods)
         IN  [overview EXCEPT
                !.pods.total = Len(items),
                !.pods.running = CountPhase(items, {"Running"}),
                !.pods.pending = CountPhase(items, {"Pending"}),
                !.pods.failed = CountPhase(items, {"Failed"})]

\* main.py:434-447: the tallies of the pods read before the listing raises.
ApplyPods(overview, pods) ==
    IF ~pods.ok THEN overview
    ELSE LET items == Readable(pods)
         IN  [overview EXCEPT
                !.pods.total = Len(items),
                !.pods.running = CountPhase(items, {"Running"}),
                !.pods.pending = CountPhase(items, {"Pending"}),
                !.pods.failed = CountPhase(items, {"Failed", "Unknown"})]

\* main.py:449-454
ApplyNamespaces(overview, namespaces) ==
    IF ~namespaces.ok THEN overview
    ELSE [overview EXCEPT !.namespaces = Len(namespaces.items)]

\* main.py:456-466: nodes is set before the loop that may raise.
ApplyNodes(overview, nodes) ==
    IF ~nodes.ok THEN overview
    ELSE LET items == Readable(nodes)
         IN  [overview EXCEPT
                !.nodes = Len(nodes.items),
                !.nodesReady = Cardinality({n \in 1..Len(items) :
                    \E i \in 1..Len(items[n].conditions) :
                        /\ items[n].conditions[i].type = "Ready"
                        /\ items[n].conditions[i].status = "True"})]

get_cluster_overview ==
    IF ~config.kubernetes.enabled \/ ~k8s_core_v1 THEN Returned(ClusterInit)
    ELSE Returned(
            ApplyNodes(
              ApplyNamespaces(
                ApplyPods(ClusterInit,
                          ClusterListing("list_pod_for_all_namespaces", world.k8sPods)),
                ClusterListing("list_namespace", world.k8sNamespaces)),
              ClusterListing("list_node", world.k8sNodes)))

(***************************************************************************)
(* get_recent_activity (main.py:471-524)                                   *)
(***************************************************************************)
\* datetime.min: an instant before every event.  Instants are seconds since
\* startup, so events of the past carry negative ones.
DatetimeMin == -2000000000

\* main.py:491
EventKey(e) ==
    IF e.last_timestamp # None THEN e.last_timestamp[1]
    ELSE IF e.event_time # None THEN e.event_time[1]
    ELSE DatetimeMin

\* sorted(items, key=EventKey, reverse=True): descending, equal keys in their
\* original order.
SortedEvents(items) ==
    LET Rank(i) == 1 + Cardinality({j \in 1..Len(items) :
                          \/ EventKey(items[j]) > EventKey(items[i])
                          \/ EventKey(items[j]) = EventKey(items[i]) /\ j < i})
    IN  [p \in 1..Len(items) |-> items[CHOOSE i \in 1..Len(items) : Rank(i) = p]]

\* A truncation that keeps 80 characters before the marker.
TruncateKeep80(message) ==
    IF Len(message) > 80 THEN SubSeq(message, 1, 80) \o <<".", ".", ".">> ELSE message

\* main.py:505-507
Truncate(message) ==
    IF Len(message) > 80 THEN SubSeq(message, 1, 77) \o <<".", ".", ".">> ELSE message

\* main.py:496-520
ActivityEntry(event, now) ==
    LET event_time == IF event.last_timestamp # None THEN event.last_timestamp
                      ELSE event.event_time
    IN  [time |-> IF event_time # None THEN format_time_ago(now - event_time[1])
                  ELSE "unknown",
         message |-> Truncate(event.message),
         type |-> IF event.type # "" THEN event.type ELSE "Normal",
         source |-> event.source.component,
         namespace |-> event.namespace,
         reason |-> event.reason]

\* list_event_for_all_namespaces(limit=20): the server cuts the list.
EventListing(adapter) ==
    Listing(adapter, SubSeq(world.k8sEvents, 1,
                            IF Len(world.k8sEvents) < 20 THEN Len(world.k8sEvents) ELSE 20))

\* sorted() reads every event before the first entry is appended: a listing
\* it cannot read leaves the list empty.
get_recent_activity ==
    IF ~config.kubernetes.enabled \/ ~k8s_core_v1 THEN Returned(<<>>)
    ELSE LET events == EventListing("activity")
         IN  IF ~events.ok \/ events.malformed THEN Returned(<<>>)
             ELSE LET sorted_events == SortedEvents(events.items)
                      first10 == SubSeq(sorted_events, 1,
                                    IF Len(sorted_events) < 10 THEN Len(sorted_events) ELSE 10)
                  IN  Returned([i \in 1..Len(first10) |->
                                   ActivityEntry(first10[i], clock)])

(***************************************************************************)
(* get_service_status (main.py:341-413)                                    *)
(***************************************************************************)
\* str.rstrip("/")
RStripSlash(s) ==
    LET keep == {i \in 0..Len(s) : \A j \in (i + 1)..Len(s) : s[j] = "/"}
    IN  SubSeq(s, 1, CHOOSE i \in keep : \A j \in keep : i <= j)

\* main.py:368
CheckUrl(service_config) ==
    IF service_config.health_path # <<>>
    THEN RStripSlash(service_config.url) \o service_config.health_path
    ELSE service_config.url

\* main.py:370-386: the request.  ok = FALSE is a timeout or a transport
\* error; millis is the response time in tenths of a millisecond.
ServiceRequest(check_url) ==
    IF "services" \in down \/ check_url \notin DOMAIN world.svcHttp
    THEN [ok |-> FALSE, status |-> 0, millis |-> 0]
    ELSE [ok |-> TRUE, status |-> world.svcHttp[check_url].status,
          millis |-> world.svcHttp[check_url].millis]

\* A check that takes a redirect for a failure: up only below 300.
check_service_redirect_degraded(service_config) ==
    LET response == ServiceRequest(CheckUrl(service_config))
        status   == IF ~response.ok THEN "down"
                    ELSE IF response.status < 300 THEN "up" ELSE "degraded"
        response_time == IF response.ok THEN response.millis ELSE 0
    IN  [name |-> service_config.name,
         url |-> IF service_config.host # <<>>
                 THEN <<"h", "t", "t", "p", ":", "/", "/">> \o service_config.host
                 ELSE service_config.url,
         status |-> status,
         responseTime |-> IF response_time # 0 THEN Some(response_time) ELSE None]

\* main.py:359-395
check_service(service_config) ==
    LET response == ServiceRequest(CheckUrl(service_config))
        status   == IF ~response.ok THEN "down"
                    ELSE IF response.status < 400 THEN "up" ELSE "degraded"
        response_time == IF response.ok THEN response.millis ELSE 0
    IN  [name |-> service_config.name,
         url |-> IF service_config.host # <<>>
                 THEN <<"h", "t", "t", "p", ":", "/", "/">> \o service_config.host
                 ELSE service_config.url,
         status |-> status,
         responseTime |-> IF response_time # 0 THEN Some(response_time) ELSE None]

\* An empty result scored as the general formula scores no services.
ServicesEmptyZeroScore ==
    [services |-> <<>>, healthScore |-> 0, upCount |-> 0, totalCount |-> 0]

\* main.py:351-357
ServicesEmpty ==
    [services |-> <<>>, healthScore |-> 1000, upCount |-> 0, totalCount |-> 0]

\* A summary that counts every service that answered as up.
ServicesSummaryAnswered(results) ==
    LET up_count    == Cardinality({i \in 1..Len(results) : results[i].status # "down"})
        total_count == Len(config.services)
    IN  [services |-> results,
         healthScore |-> IF total_count > 0
                         THEN RoundScaled(up_count * 100, total_count, 10)
                         ELSE 0,
         upCount |-> up_count,
         totalCount |-> total_count]

\* main.py:400-413, on the gathered results; healthScore in tenths.
ServicesSummary(results) ==
    LET up_count    == Cardinality({i \in 1..Len(results) : results[i].status = "up"})
        total_count == Len(config.services)
    IN  [services |-> results,
         healthScore |-> IF total_count > 0
                         THEN RoundScaled(up_count * 100, total_count, 10)
                         ELSE 0,
         upCount |-> up_count,
         totalCount |-> total_count]

(***************************************************************************)
(* The network appliance adapter, get_network_status (main.py:527-744).    *)
(***************************************************************************)
\* main.py:539-554: the document every invocation starts from.
NetworkInit ==
    [firewall |-> [hostname |-> "Unknown", model |-> "Unknown",
                   firmware |-> "Unknown", uptime |-> 0,
                   uptimeFormatted |-> "Unknown", cpu |-> 0, memory |-> 0,
                   status |-> "unknown"],
     interfaces |-> <<>>,
     dhcpLeases |-> 0,
     deviceCount |-> 0,
     available |-> FALSE]

\* An invocation's frame: where it is suspended, its locals now (main.py:573),
\* time_delta_seconds (652-654), rx_delta and tx_delta (674-675, as the last
\* interface with a stored sample left them) and the document it builds.
NetIdle ==
    [pc |-> "idle", now |-> 0, time_delta_seconds |-> 0, rx_delta |-> 0,
     tx_delta |-> 0, network |-> NetworkInit]

FwEndpoints == {"status", "resource", "perf", "interface", "dhcp", "arp"}

\* The interface table as the appliance serves it: results.items() in order.
\* A malformed entry (its value is no dict) makes iface_data.get raise.
InterfaceResults ==
    <<[name |-> "ssl.root", malformed |-> FALSE,
       data |-> [type |-> "tunnel", ip |-> "", link |-> TRUE, speed |-> 0,
                 rx_bytes |-> 77, tx_bytes |-> 88]],
      [name |-> "wan1", malformed |-> FALSE,
       data |-> [type |-> "hard-switch", ip |-> "203.0.113.2", link |-> TRUE,
                 speed |-> 1000,
                 rx_bytes |-> fwTable.wan1[1], tx_bytes |-> fwTable.wan1[2]]]>>
    \o (IF world.fwMalformed THEN <<[name |-> "npu0", malformed |-> TRUE, data |-> <<>>]>> ELSE <<>>)
    \o (IF fwTable.port2
        THEN <<[name |-> "port2", malformed |-> FALSE,
                data |-> [type |-> "physical", ip |-> "",
                          ipv4 |-> <<[ip |-> "10.0.0.1"]>>, link |-> FALSE,
                          speed |-> 100,
                          rx_bytes |-> fwTable.wan1[1] + 6000,
                          tx_bytes |-> fwTable.wan1[2] + 8500]]>>
        ELSE <<>>)

\* One request of the adapter's session.  ok = FALSE is a transport error or
\* a timeout (session.get raises); malformed is a body whose shape makes the
\* code that reads it raise.
FwCall(endpoint) ==
    IF "network" \in down \/ endpoint \in world.fwFail
    THEN [ok |-> FALSE, status |-> 0, malformed |-> FALSE, json |-> <<>>]
    ELSE [ok |-> TRUE,
          status |-> world.fwHttp[endpoint],
          malformed |-> "network" \in world.malformed \/ endpoint \in world.fwBadJson,
          json |-> IF endpoint = "interface"
                   THEN [results |-> InterfaceResults]
                   ELSE world.fwJson[endpoint]]

\* The guard every endpoint block shares: the request did not raise, the
\* status is 200 (main.py:587) and reading the body did not raise.
Usable(resp) == resp.ok /\ resp.status = 200 /\ ~resp.malformed

\* main.py:582-600
ApplySystemStatus(network, resp) ==
    IF ~Usable(resp) THEN network
    ELSE LET results      == Get(resp.json, "results", <<>>)
             model_name   == Get(results, "model_name", "FortiGate")
             model_number == Get(results, "model_number", "")
         IN  [network EXCEPT
                !.firewall.hostname = Get(results, "hostname", "Unknown"),
                !.firewall.model = IF model_number # ""
                                   THEN model_name \o "-" \o model_number
                                   ELSE model_name,
                !.firewall.firmware = Get(resp.json, "version", "Unknown"),
                !.firewall.status = "online",
                !.available = TRUE]

\* main.py:603-621
ApplyResourceUsage(network, resp) ==
    IF ~Usable(resp) THEN network
    ELSE LET results  == Get(resp.json, "results", <<>>)
             cpu_data == Get(results, "cpu", <<>>)
             mem_data == Get(results, "mem", <<>>)
             n1 == IF Len(cpu_data) > 0
                   THEN [network EXCEPT !.firewall.cpu = Get(cpu_data[1], "current", 0)]
                   ELSE network
         IN  IF Len(mem_data) > 0
             THEN [n1 EXCEPT !.firewall.memory = Get(mem_data[1], "current", 0)]
             ELSE n1

\* main.py:624-639
ApplyPerformanceStatus(network, resp) ==
    IF ~Usable(resp) THEN network
    ELSE LET results        == Get(resp.json, "results", <<>>)
             uptime_seconds == Get(results, "uptime", 0)
         IN  IF uptime_seconds > 0
             THEN [network EXCEPT
                     !.firewall.uptime = uptime_seconds,
                     !.firewall.uptimeFormatted = format_uptime(uptime_seconds)]
             ELSE network

\* An elapsed time without the floor of one second.
TimeDeltaSecondsUnfloored(now) ==
    IF last_interface_poll # None
    THEN now - last_interface_poll[1]
    ELSE 5

\* main.py:651-654
TimeDeltaSeconds(now) ==
    IF last_interface_poll # None
    THEN Max(now - last_interface_poll[1], 1)
    ELSE 5

\* main.py:658
Retained(name, data) ==
    \/ Get(data, "type", "") \in {"physical", "vlan", "aggregate"}
    \/ name \in {"wan1", "wan2", "lan", "internal"}

\* main.py:660-664
IpAddr(data) ==
    IF Get(data, "ip", "") # "" THEN data.ip
    ELSE IF Get(data, "ipv4", <<>>) # <<>> THEN Get(data.ipv4[1], "ip", "")
    ELSE ""

\* main.py:673: the stored sample the rate is computed against.
PrevSample(stats, name) == stats[name]

\* A rate in megabytes: the * 8 forgotten.
RateMegabytes(delta, time_delta_seconds) ==
    RoundScaled(delta, time_delta_seconds * 1000000, 100)

\* main.py:678, 680 with the round(., 2) of 695-696: delta bytes over
\* time_delta_seconds, in hundredths of a megabit per second.
RateMbps(delta, time_delta_seconds) ==
    RoundScaled(delta * 8, time_delta_seconds * 1000000, 100)

\* main.py:674-675
Delta(stats, name, key, bytes) == bytes - Get(PrevSample(stats, name), key, bytes)

\* A missing sample read as zero counters: no first-observation case.
RateFromZero(stats, name, key, bytes, time_delta_seconds) ==
    IF time_delta_seconds > 0
    THEN LET delta == bytes - Get(Get(stats, name, <<>>), key, 0)
         IN  IF delta >= 0 THEN RateMbps(delta, time_delta_seconds) ELSE 0
    ELSE 0

\* No guard against a counter that went down.
RateSigned(stats, name, key, bytes, time_delta_seconds) ==
    IF name \in DOMAIN stats /\ time_delta_seconds > 0
    THEN LET delta == bytes - Get(stats[name], key, bytes)
             mag   == RateMbps(IF delta >= 0 THEN delta ELSE -delta,
                               time_delta_seconds)
         IN  IF delta >= 0 THEN mag ELSE -mag
    ELSE 0

\* main.py:669-680
Rate(stats, name, key, bytes, time_delta_seconds) ==
    IF name \in DOMAIN stats /\ time_delta_seconds > 0
    THEN IF Delta(stats, name, key, bytes) >= 0
         THEN RateMbps(Delta(stats, name, key, bytes), time_delta_seconds)
         ELSE 0
    ELSE 0

\* main.py:683-686: _previous_interface_stats[iface_name] = {...}
StoreSample(stats, name, rx_bytes, tx_bytes) ==
    [n \in DOMAIN stats \cup {name} |->
        IF n = name THEN [rx_bytes |-> rx_bytes, tx_bytes |-> tx_bytes]
        ELSE stats[n]]

\* main.py:688-697
InterfaceEntry(name, data, rx_rate, tx_rate) ==
    [name |-> name,
     ip |-> IpAddr(data),
     status |-> IF Get(data, "link", FALSE) THEN "up" ELSE "down",
     speed |-> Get(data, "speed", 0),
     rxBytes |-> Get(data, "rx_bytes", 0),
     txBytes |-> Get(data, "tx_bytes", 0),
     rxRate |-> rx_rate,
     txRate |-> tx_rate]

\* main.py:656-697: the loop over results.items(), from entry i on, on the
\* frame f and the stored samples stats.  It stops with raised = TRUE at a
\* malformed entry, keeping what it did before.
RECURSIVE InterfaceLoop(_, _, _, _)
InterfaceLoop(results, i, stats, f) ==
    IF i > Len(results)
    THEN [stats |-> stats, frame |-> f, raised |-> FALSE]
    ELSE LET name == results[i].name
             data == results[i].data
         IN  IF results[i].malformed
             THEN [stats |-> stats, frame |-> f, raised |-> TRUE]
             ELSE IF ~Retained(name, data)
             THEN InterfaceLoop(results, i + 1, stats, f)
             ELSE LET rx_bytes == Get(data, "rx_bytes", 0)
                      tx_bytes == Get(data, "tx_bytes", 0)
                      seen     == name \in DOMAIN stats /\ f.time_delta_seconds > 0
                      rx_rate  == Rate(stats, name, "rx_bytes", rx_bytes,
                                       f.time_delta_seconds)
                      tx_rate  == Rate(stats, name, "tx_bytes", tx_bytes,
                                       f.time_delta_seconds)
                  IN  InterfaceLoop(results, i + 1,
                        StoreSample(stats, name, rx_bytes, tx_bytes),
                        [f EXCEPT
                           !.rx_delta = IF seen
                                        THEN Delta(stats, name, "rx_bytes", rx_bytes)
                                        ELSE @,
                           !.tx_delta = IF seen
                                        THEN Delta(stats, name, "tx_bytes", tx_bytes)
                                        ELSE @,
                           !.network.interfaces =
                              Append(@, InterfaceEntry(name, data, rx_rate, tx_rate))])

\* main.py:703-719
ApplyDhcp(network, resp) ==
    IF ~Usable(resp) THEN network
    ELSE LET results == Get(resp.json, "results", <<>>)
         IN  [network EXCEPT !.dhcpLeases =
                Cardinality({i \in 1..Len(results) :
                    Get(results[i], "ip", "") # ""
                    /\ Get(results[i], "mac", "") # ""})]

\* main.py:722-738
ApplyArp(network, resp) ==
    IF ~Usable(resp) THEN network
    ELSE LET results == Get(resp.json, "results", <<>>)
         IN  [network EXCEPT !.deviceCount =
                Cardinality({Get(results[i], "mac", "") : i \in 1..Len(results)}
                            \ {"", "00:00:00:00:00:00"})]

\* A network adapter that does not look at the appliance type.
GetNetworkStatusStartAnyType ==
    IF ~config.firewall.enabled THEN [NetIdle EXCEPT !.pc = "done"]
    ELSE IF FORTIGATE_API_KEY = "" THEN [NetIdle EXCEPT !.pc = "done"]
    ELSE IF world.fwSessionError
    THEN [NetIdle EXCEPT !.pc = "done", !.now = clock,
                         !.network.firewall.status = "error"]
    ELSE [NetIdle EXCEPT !.pc = "status", !.now = clock]

\* main.py:556-580: from the call to the first await.  The early returns hand
\* back the placeholder; a session that cannot be built ends in the outer
\* except (main.py:740-742).
GetNetworkStatusStart ==
    IF ~config.firewall.enabled THEN [NetIdle EXCEPT !.pc = "done"]
    ELSE IF FORTIGATE_API_KEY = "" THEN [NetIdle EXCEPT !.pc = "done"]
    ELSE IF config.firewall.type # "fortigate" THEN [NetIdle EXCEPT !.pc = "done"]
    ELSE IF world.fwSessionError
    THEN [NetIdle EXCEPT !.pc = "done", !.now = clock,
                         !.network.firewall.status = "error"]
    ELSE [NetIdle EXCEPT !.pc = "status", !.now = clock]

\* A system-status block without its own try: a request that raises ends
\* the invocation in the outer except (main.py:740-742).
NetSystemStatusUnguarded(k) ==
    /\ net[k].pc = "status"
    /\ net' = IF FwCall("status").ok
              THEN [net EXCEPT ![k].pc = "resource",
                               ![k].network = ApplySystemStatus(@, FwCall("status"))]
              ELSE [net EXCEPT ![k].pc = "done",
                               ![k].network.firewall.status = "error"]
    /\ UNCHANGED <<startupVars, down, fwTable, clock, active_connections,
                   trackerVars, ws, rest, dash, bcast>>

\* The awaits of get_network_status, one action each.
NetSystemStatus(k) ==
    /\ net[k].pc = "status"
    /\ net' = [net EXCEPT ![k].pc = "resource",
                          ![k].network = ApplySystemStatus(@, FwCall("status"))]
    /\ UNCHANGED <<startupVars, down, fwTable, clock, active_connections,
                   trackerVars, ws, rest, dash, bcast>>

NetResourceUsage(k) ==
    /\ net[k].pc = "resource"
    /\ net' = [net EXCEPT ![k].pc = "perf",
                          ![k].network = ApplyResourceUsage(@, FwCall("resource"))]
    /\ UNCHANGED <<startupVars, down, fwTable, clock, active_connections,
                   trackerVars, ws, rest, dash, bcast>>

NetPerformanceStatus(k) ==
    /\ net[k].pc = "perf"
    /\ net' = [net EXCEPT ![k].pc = "interface",
                          ![k].network = ApplyPerformanceStatus(@, FwCall("perf"))]
    /\ UNCHANGED <<startupVars, down, fwTable, clock, active_connections,
                   trackerVars, ws, rest, dash, bcast>>

\* The block with an await between computing the rates and storing the
\* samples: the samples it stores are those it computed before it suspended.
NetInterfaceSuspended(k) ==
    \/ /\ net[k].pc = "interface"
       /\ LET out == InterfaceLoop(FwCall("interface").json.results, 1,
                         previous_interface_stats,
                         [net[k] EXCEPT !.time_delta_seconds =
                                           TimeDeltaSeconds(net[k].now)])
          IN  net' = [net EXCEPT ![k] =
                        [pc |-> "interface_store", frame |-> out.frame,
                         stats |-> out.stats]]
       /\ UNCHANGED <<startupVars, down, fwTable, clock, active_connections,
                      trackerVars, ws, rest, dash, bcast>>
    \/ /\ net[k].pc = "interface_store"
       /\ net' = [net EXCEPT ![k] = [net[k].frame EXCEPT !.pc = "dhcp"]]
       /\ previous_interface_stats' =
             [n \in DOMAIN previous_interface_stats \cup DOMAIN net[k].stats |->
                IF n \in DOMAIN net[k].stats THEN net[k].stats[n]
                ELSE previous_interface_stats[n]]
       /\ last_interface_poll' = Some(net[k].frame.now)
       /\ UNCHANGED <<startupVars, down, fwTable, clock, active_connections,
                      ws, rest, dash, bcast>>

\* main.py:642-701: the interface response arrives; the rate computation, the
\* writes of _previous_interface_stats and of _last_interface_poll follow
\* without an await.
NetInterface(k) ==
    /\ net[k].pc = "interface"
    /\ LET resp == FwCall("interface")
       IN  IF ~resp.ok \/ resp.status # 200 \/ resp.malformed
           THEN /\ net' = [net EXCEPT ![k].pc = "dhcp"]
                /\ UNCHANGED trackerVars
           ELSE LET out == InterfaceLoop(resp.json.results, 1,
                              previous_interface_stats,
                              [net[k] EXCEPT !.time_delta_seconds =
                                                TimeDeltaSeconds(net[k].now)])
                IN  /\ net' = [net EXCEPT ![k] = [out.frame EXCEPT !.pc = "dhcp"]]
                    /\ previous_interface_stats' = out.stats
                    /\ last_interface_poll' =
                          IF out.raised THEN last_interface_poll
                          ELSE Some(net[k].now)
    /\ UNCHANGED <<startupVars, down, fwTable, clock, active_connections,
                   ws, rest, dash, bcast>>

NetDhcp(k) ==
    /\ net[k].pc = "dhcp"
    /\ net' = [net EXCEPT ![k].pc = "arp",
                          ![k].network = ApplyDhcp(@, FwCall("dhcp"))]
    /\ UNCHANGED <<startupVars, down, fwTable, clock, active_connections,
                   trackerVars, ws, rest, dash, bcast>>

NetArp(k) ==
    /\ net[k].pc = "arp"
    /\ net' = [net EXCEPT ![k].pc = "done",
                          ![k].network = ApplyArp(@, FwCall("arp"))]
    /\ UNCHANGED <<startupVars, down, fwTable, clock, active_connections,
                   trackerVars, ws, rest, dash, bcast>>

(***************************************************************************)
(* get_dashboard (main.py:835-934), the assembler.                         *)
(***************************************************************************)
\* An invocation's frame: tasks and results are the lists of main.py:843-855
\* (a result is None until its task settles), checks the inner gather of
\* get_service_status (main.py:398), data what it returns.
DashIdle ==
    [pc |-> "idle", tasks |-> <<>>, results |-> <<>>, checks |-> <<>>,
     data |-> <<>>]

\* A task list that invokes every adapter whatever the features.
TasksAll == <<"services", "nodes", "alerts", "cluster", "activity", "network">>

\* main.py:843-852
Tasks ==
    <<"services">>
    \o (IF config.prometheus.enabled THEN <<"nodes", "alerts">> ELSE <<>>)
    \o (IF config.kubernetes.enabled THEN <<"cluster", "activity">> ELSE <<>>)
    \o (IF config.firewall.enabled THEN <<"network">> ELSE <<>>)

\* main.py:843-855: the call, up to the await of gather.
GetDashboardStart ==
    [DashIdle EXCEPT !.pc = "created", !.tasks = Tasks,
                     !.results = [i \in 1..Len(Tasks) |-> None]]

\* main.py:891-896 and 902-907: the literal written where the cluster
\* feature is disabled.
ClusterDisabled ==
    [pods |-> [running |-> 0, pending |-> 0, failed |-> 0, total |-> 0],
     namespaces |-> 0,
     nodes |-> 0,
     nodesReady |-> 0]

\* main.py:917-932: the literal written where the appliance feature is
\* disabled.
NetworkDisabled ==
    [firewall |-> [hostname |-> "Unknown", model |-> "Unknown",
                   firmware |-> "Unknown", uptime |-> 0,
                   uptimeFormatted |-> "Unknown", cpu |-> 0, memory |-> 0,
                   status |-> "unknown"],
     interfaces |-> <<>>,
     dhcpLeases |-> 0,
     deviceCount |-> 0,
     available |-> FALSE]

\* result_idx (main.py:858-915) when the merge reaches each block.
IdxServices == 1
IdxNodes == IdxServices + 1
IdxAlerts == IdxNodes + 1
IdxCluster == IF config.prometheus.enabled THEN IdxAlerts + 1 ELSE IdxServices + 1
IdxActivity == IdxCluster + 1
\* A merge that reads the network block from the first result.
IdxNetworkFirst == IdxServices

IdxNetwork ==
    IF config.kubernetes.enabled THEN IdxActivity + 1
    ELSE IF config.prometheus.enabled THEN IdxAlerts + 1
    ELSE IdxServices + 1

\* main.py:869-910: infrastructure
MergeInfrastructure(results) ==
    [nodes |-> IF config.prometheus.enabled THEN results[IdxNodes] ELSE <<>>,
     cluster |-> IF config.kubernetes.enabled THEN results[IdxCluster]
                 ELSE ClusterDisabled]

\* main.py:876-883, 909: alerts
MergeAlerts(results) ==
    IF config.prometheus.enabled
    THEN [items |-> results[IdxAlerts], count |-> Len(results[IdxAlerts])]
    ELSE [items |-> <<>>, count |-> 0]

\* main.py:888, 897, 910: activity
MergeActivity(results) ==
    IF config.kubernetes.enabled THEN results[IdxActivity] ELSE <<>>

\* main.py:912-932: network
MergeNetwork(results) ==
    IF config.firewall.enabled THEN results[IdxNetwork] ELSE NetworkDisabled

\* A merge that leaves out the keys of disabled features.
MergeEnabledOnly(results, now) ==
    IF config.firewall.enabled
    THEN [timestamp |-> now, services |-> results[IdxServices],
          infrastructure |-> MergeInfrastructure(results),
          alerts |-> MergeAlerts(results),
          activity |-> MergeActivity(results),
          network |-> MergeNetwork(results)]
    ELSE IF config.prometheus.enabled \/ config.kubernetes.enabled
    THEN [timestamp |-> now, services |-> results[IdxServices],
          infrastructure |-> MergeInfrastructure(results),
          alerts |-> MergeAlerts(results),
          activity |-> MergeActivity(results)]
    ELSE [timestamp |-> now, services |-> results[IdxServices]]

\* main.py:858-934: data, from the gathered results.
Merge(results, now) ==
    [timestamp |-> now,
     services |-> results[IdxServices],
     infrastructure |-> MergeInfrastructure(results),
     alerts |-> MergeAlerts(results),
     activity |-> MergeActivity(results),
     network |-> MergeNetwork(results)]

\* Position of a task in an invocation's task list (0: not among them).
TaskIdx(k, name) ==
    IF \E i \in 1..Len(dash[k].tasks) : dash[k].tasks[i] = name
    THEN CHOOSE i \in 1..Len(dash[k].tasks) : dash[k].tasks[i] = name
    ELSE 0

\* gather starts its tasks in the order of the list; each runs to its first
\* await.  The metrics, cluster and activity adapters have none and settle
\* here; get_service_status settles here when no service is configured and
\* starts its checks otherwise; get_network_status runs to its first request.
DashTasksStart(k) ==
    /\ dash[k].pc = "created"
    /\ dash' = [dash EXCEPT
          ![k].pc = "gather",
          ![k].results = [i \in 1..Len(dash[k].tasks) |->
             CASE dash[k].tasks[i] = "services" ->
                     IF config.services = <<>> THEN Some(Returned(ServicesEmpty))
                     ELSE None
               [] dash[k].tasks[i] = "nodes" -> Some(get_node_metrics)
               [] dash[k].tasks[i] = "alerts" -> Some(get_active_alerts)
               [] dash[k].tasks[i] = "cluster" -> Some(get_cluster_overview)
               [] dash[k].tasks[i] = "activity" -> Some(get_recent_activity)
               [] dash[k].tasks[i] = "network" -> None],
          ![k].checks = [j \in 1..Len(config.services) |-> None]]
    /\ net' = IF TaskIdx(k, "network") # 0
              THEN [net EXCEPT ![k] = GetNetworkStatusStart]
              ELSE net
    /\ UNCHANGED <<startupVars, down, fwTable, clock, active_connections,
                   trackerVars, ws, rest, bcast>>

\* main.py:359-395: one service's check settles.
CheckServiceSettle(k, j) ==
    /\ dash[k].pc = "gather"
    /\ j \in 1..Len(dash[k].checks)
    /\ dash[k].checks[j] = None
    /\ dash' = [dash EXCEPT ![k].checks[j] = Some(check_service(config.services[j]))]
    /\ UNCHANGED <<startupVars, down, fwTable, clock, active_connections,
                   trackerVars, ws, rest, net, bcast>>

\* main.py:398-413: the inner gather is complete; get_service_status returns.
ServicesReturn(k) ==
    /\ dash[k].pc = "gather"
    /\ dash[k].results[IdxServices] = None
    /\ \A j \in 1..Len(dash[k].checks) : dash[k].checks[j] # None
    /\ dash' = [dash EXCEPT ![k].results[IdxServices] =
          Some(Returned(ServicesSummary(
                  [j \in 1..Len(dash[k].checks) |-> dash[k].checks[j][1]])))]
    /\ UNCHANGED <<startupVars, down, fwTable, clock, active_connections,
                   trackerVars, ws, rest, net, bcast>>

\* main.py:744: get_network_status returns to the gather.
NetworkReturn(k) ==
    /\ dash[k].pc = "gather"
    /\ TaskIdx(k, "network") # 0
    /\ dash[k].results[TaskIdx(k, "network")] = None
    /\ net[k].pc = "done"
    /\ dash' = [dash EXCEPT ![k].results[TaskIdx(k, "network")] =
                                Some(Returned(net[k].network))]
    /\ net' = [net EXCEPT ![k] = NetIdle]
    /\ UNCHANGED <<startupVars, down, fwTable, clock, active_connections,
                   trackerVars, ws, rest, bcast>>

\* main.py:855-934: gather hands over the results (or the first exception a
\* task raised) and the merge runs to the return.
DashMerge(k) ==
    /\ dash[k].pc = "gather"
    /\ LET results == dash[k].results
           settled == {i \in 1..Len(results) : results[i] # None}
       IN  IF \E i \in settled : results[i][1].raised
           THEN dash' = [dash EXCEPT ![k].pc = "raised"]
           ELSE /\ settled = 1..Len(results)
                /\ dash' = [dash EXCEPT
                      ![k].pc = "done",
                      ![k].data = Merge([i \in 1..Len(results) |->
                                            results[i][1].value], clock)]
    /\ UNCHANGED <<startupVars, down, fwTable, clock, active_connections,
                   trackerVars, ws, rest, net, bcast>>

(***************************************************************************)
(* The environment: time passes, traffic moves the appliance's counters    *)
(* (a lower value is a counter reset), an interface appears.               *)
(***************************************************************************)
RxValues == {1000, 1625000}
TxValues == {500, 625000}

Tick ==
    /\ clock < MaxTicks * SleepSeconds
    /\ clock' = clock + SleepSeconds
    /\ UNCHANGED <<startupVars, down, fwTable, active_connections, trackerVars,
                   ws, rest, dash, net, bcast>>

Traffic ==
    /\ \E rx \in RxValues, tx \in TxValues :
          /\ <<rx, tx>> # fwTable.wan1
          /\ fwTable' = [fwTable EXCEPT !.wan1 = <<rx, tx>>]
    /\ UNCHANGED <<startupVars, down, clock, active_connections, trackerVars,
                   ws, rest, dash, net, bcast>>

\* The one burst of traffic of SpecNet's runs.
TrafficBurst ==
    /\ fwTable.wan1 = <<1000, 500>>
    /\ fwTable' = [fwTable EXCEPT !.wan1 = <<1625000, 625000>>]
    /\ UNCHANGED <<startupVars, down, clock, active_connections, trackerVars,
                   ws, rest, dash, net, bcast>>

InterfaceAppears ==
    /\ ~fwTable.port2
    /\ fwTable' = [fwTable EXCEPT !.port2 = TRUE]
    /\ UNCHANGED <<startupVars, down, clock, active_connections, trackerVars,
                   ws, rest, dash, net, bcast>>

(***************************************************************************)
(* ConnectionManager (main.py:108-131) and websocket_endpoint              *)
(* (main.py:941-960).  A channel is named by the caller that opened it.    *)
(***************************************************************************)
\* A disconnect that empties the registry.
DisconnectAll(connections, websocket) == <<>>

\* A disconnect that drops the oldest registered connection, whichever
\* websocket it is given.
DisconnectOldest(connections, websocket) ==
    IF connections = <<>> THEN connections ELSE Tail(connections)

\* main.py:117-120: list.remove takes out the first occurrence.
disconnect(connections, websocket) ==
    IF \E i \in 1..Len(connections) : connections[i] = websocket
    THEN LET i == CHOOSE i \in 1..Len(connections) :
                     /\ connections[i] = websocket
                     /\ \A j \in 1..(i - 1) : connections[j] # websocket
         IN  SubSeq(connections, 1, i - 1) \o SubSeq(connections, i + 1, Len(connections))
    ELSE connections

\* The endpoint's coroutine for one websocket: where it is suspended, whether
\* the client has gone away, when its sleep ends, the snapshot it is sending
\* and the timestamps of the snapshots the client received.
WsNone ==
    [pc |-> "none", gone |-> FALSE, wake |-> 0, data |-> <<>>, received |-> <<>>]

\* The states of a connection the specification calls Open.
WsOpen == {"assembling", "sending", "sleeping"}

\* main.py:941-944, 112-113: a client connects; the endpoint awaits accept().
WsCall(k) ==
    /\ rest[k] = "none"
    /\ ws[k].pc = "none"
    /\ ws' = [ws EXCEPT ![k].pc = "accepting"]
    /\ UNCHANGED <<startupVars, down, fwTable, clock, active_connections,
                   trackerVars, rest, dash, net, bcast>>

\* The client goes away; the server learns of it at its next accept or send.
ClientGone(k) ==
    /\ ws[k].pc \in {"accepting"} \cup WsOpen
    /\ ~ws[k].gone
    /\ ws' = [ws EXCEPT ![k].gone = TRUE]
    /\ UNCHANGED <<startupVars, down, fwTable, clock, active_connections,
                   trackerVars, rest, dash, net, bcast>>

\* A connect that registers the channel before it awaits accept().
WsAcceptRegisterFirst(k) ==
    /\ ws[k].pc = "accepting"
    /\ active_connections' = Append(active_connections, k)
    /\ IF ws[k].gone
       THEN /\ ws' = [ws EXCEPT ![k].pc = "raised"]
            /\ UNCHANGED dash
       ELSE /\ ws' = [ws EXCEPT ![k].pc = "assembling"]
            /\ dash' = [dash EXCEPT ![k] = GetDashboardStart]
    /\ UNCHANGED <<startupVars, down, fwTable, clock, trackerVars, rest, net,
                   bcast>>

\* main.py:113-115, 946-949: accept() settles.  When it raises, the exception
\* leaves connect and the endpoint (the await is outside the try) and nothing
\* was registered.  Otherwise the channel is appended and the loop makes its
\* first call of get_dashboard.
WsAccept(k) ==
    /\ ws[k].pc = "accepting"
    /\ IF ws[k].gone
       THEN /\ ws' = [ws EXCEPT ![k].pc = "raised"]
            /\ UNCHANGED <<active_connections, dash>>
       ELSE /\ ws' = [ws EXCEPT ![k].pc = "assembling"]
            /\ active_connections' = Append(active_connections, k)
            /\ dash' = [dash EXCEPT ![k] = GetDashboardStart]
    /\ UNCHANGED <<startupVars, down, fwTable, clock, trackerVars, rest, net,
                   bcast>>

\* main.py:949-952, 958-960: get_dashboard is back; the loop calls send_json
\* with what it returned.  Had it raised, except Exception deregisters and
\* the endpoint returns.
WsSend(k) ==
    /\ ws[k].pc = "assembling"
    /\ dash[k].pc \in {"done", "raised"}
    /\ IF dash[k].pc = "done"
       THEN /\ ws' = [ws EXCEPT ![k].pc = "sending", ![k].data = dash[k].data]
            /\ UNCHANGED active_connections
       ELSE /\ ws' = [ws EXCEPT ![k].pc = "closed"]
            /\ active_connections' = disconnect(active_connections, k)
    /\ dash' = [dash EXCEPT ![k] = DashIdle]
    /\ UNCHANGED <<startupVars, down, fwTable, clock, trackerVars, rest, net,
                   bcast>>

\* A loop that answers a failed send by sleeping and trying again.
WsSendSettleRetry(k) ==
    /\ ws[k].pc = "sending"
    /\ ws' = [ws EXCEPT ![k].pc = "sleeping", ![k].data = <<>>,
                        ![k].wake = clock + SleepSeconds,
                        ![k].received = IF ws[k].gone THEN @
                                        ELSE Append(@, ws[k].data.timestamp)]
    /\ UNCHANGED <<startupVars, down, fwTable, clock, active_connections,
                   trackerVars, rest, dash, net, bcast>>

\* main.py:952-960: send_json settles.  On WebSocketDisconnect or any other
\* exception the handler deregisters the channel and the endpoint returns;
\* otherwise the client has the snapshot and the loop sleeps 5 seconds.
WsSendSettle(k) ==
    /\ ws[k].pc = "sending"
    /\ IF ws[k].gone
       THEN /\ ws' = [ws EXCEPT ![k].pc = "closed", ![k].data = <<>>]
            /\ active_connections' = disconnect(active_connections, k)
       ELSE /\ ws' = [ws EXCEPT ![k].pc = "sleeping", ![k].data = <<>>,
                                ![k].wake = clock + SleepSeconds,
                                ![k].received = Append(@, ws[k].data.timestamp)]
            /\ UNCHANGED active_connections
    /\ UNCHANGED <<startupVars, down, fwTable, clock, trackerVars, rest, dash,
                   net, bcast>>

\* A loop that goes into its next cycle without waiting for the sleep to end.
WsWakeAtOnce(k) ==
    /\ ws[k].pc = "sleeping"
    /\ ws' = [ws EXCEPT ![k].pc = "assembling", ![k].wake = 0]
    /\ dash' = [dash EXCEPT ![k] = GetDashboardStart]
    /\ UNCHANGED <<startupVars, down, fwTable, clock, active_connections,
                   trackerVars, rest, net, bcast>>

\* A loop whose sleep is followed by another sleep.
WsWakeSleepOn(k) ==
    /\ ws[k].pc = "sleeping"
    /\ clock >= ws[k].wake
    /\ ws' = [ws EXCEPT ![k].wake = clock + SleepSeconds]
    /\ UNCHANGED <<startupVars, down, fwTable, clock, active_connections,
                   trackerVars, rest, dash, net, bcast>>

\* main.py:955, 947-949: the sleep is over; the next cycle calls
\* get_dashboard.
WsWake(k) ==
    /\ ws[k].pc = "sleeping"
    /\ clock >= ws[k].wake
    /\ ws' = [ws EXCEPT ![k].pc = "assembling", ![k].wake = 0]
    /\ dash' = [dash EXCEPT ![k] = GetDashboardStart]
    /\ UNCHANGED <<startupVars, down, fwTable, clock, active_connections,
                   trackerVars, rest, net, bcast>>

(***************************************************************************)
(* ConnectionManager.broadcast (main.py:122-131).  Nothing in the program  *)
(* calls it; here a caller outside the connection loops does.              *)
(***************************************************************************)
\* The frame of the invocation: i counts the elements the for loop's list
\* iterator has handed out, connection is the one being sent to,
\* disconnected the local list, attempts the sends it has made so far.
BcastIdle ==
    [pc |-> "idle", i |-> 0, connection |-> 0, disconnected |-> <<>>,
     attempts |-> <<>>]

\* main.py:130-131
RECURSIVE DisconnectEach(_, _)
DisconnectEach(connections, disconnected) ==
    IF disconnected = <<>> THEN connections
    ELSE DisconnectEach(disconnect(connections, Head(disconnected)),
                        Tail(disconnected))

\* main.py:123-126: the call.  With an empty registry both loops are empty
\* and it returns; otherwise it suspends in the first send.
Broadcast ==
    /\ bcast.pc \in {"idle", "returned"}
    /\ bcast' = IF active_connections = <<>>
                THEN [BcastIdle EXCEPT !.pc = "returned"]
                ELSE [BcastIdle EXCEPT !.pc = "sending", !.i = 1,
                                       !.connection = active_connections[1]]
    /\ UNCHANGED <<startupVars, down, fwTable, clock, active_connections,
                   trackerVars, ws, rest, dash, net>>

\* A broadcast without the try around the send: a failed send raises out of
\* it.
BroadcastSendUnguarded ==
    /\ bcast.pc = "sending"
    /\ LET ok       == ~ws[bcast.connection].gone
           attempts == Append(bcast.attempts,
                              [channel |-> bcast.connection, ok |-> ok])
       IN  IF ~ok
           THEN /\ bcast' = [bcast EXCEPT !.pc = "raised", !.attempts = attempts]
                /\ UNCHANGED active_connections
           ELSE IF bcast.i < Len(active_connections)
           THEN /\ bcast' = [bcast EXCEPT
                               !.i = @ + 1,
                               !.connection = active_connections[bcast.i + 1],
                               !.attempts = attempts]
                /\ UNCHANGED active_connections
           ELSE /\ bcast' = [bcast EXCEPT !.pc = "returned", !.connection = 0,
                                          !.attempts = attempts]
                /\ active_connections' =
                      DisconnectEach(active_connections, bcast.disconnected)
    /\ UNCHANGED <<startupVars, down, fwTable, clock, trackerVars, ws, rest,
                   dash, net>>

\* main.py:124-131: the send in flight settles.  A failure is caught and the
\* connection noted; the iterator hands out the next element of the list as
\* it is now, or, at its end, the second loop deregisters the noted
\* connections and the call returns.
BroadcastSend ==
    /\ bcast.pc = "sending"
    /\ LET ok           == ~ws[bcast.connection].gone
           disconnected == IF ok THEN bcast.disconnected
                           ELSE Append(bcast.disconnected, bcast.connection)
           attempts     == Append(bcast.attempts,
                                  [channel |-> bcast.connection, ok |-> ok])
       IN  IF bcast.i < Len(active_connections)
           THEN /\ bcast' = [bcast EXCEPT
                               !.i = @ + 1,
                               !.connection = active_connections[bcast.i + 1],
                               !.disconnected = disconnected,
                               !.attempts = attempts]
                /\ UNCHANGED active_connections
           ELSE /\ bcast' = [bcast EXCEPT !.pc = "returned", !.connection = 0,
                                          !.disconnected = disconnected,
                                          !.attempts = attempts]
                /\ active_connections' =
                      DisconnectEach(active_connections, disconnected)
    /\ UNCHANGED <<startupVars, down, fwTable, clock, trackerVars, ws, rest,
                   dash, net>>

(***************************************************************************)
(* The second loop of broadcast (main.py:130-131) taken one iteration at a *)
(* time: each iteration is one call of ConnectionManager.disconnect.       *)
(***************************************************************************)
\* Channels a registry can hold.
MaxChannels == 3
Channels == 1..MaxChannels
\* Longest list of noted connections.
MaxNoted == 2

\* main.py:110, 114: the registry is a list that connect appends to, once
\* for each websocket, so no websocket is in it twice.
Registries ==
    {s \in UNION {[1..n -> Channels] : n \in 0..MaxChannels} :
        \A i, j \in 1..Len(s) : i # j => s[i] # s[j]}

\* The lists of connections the second loop may be handed.
NotedLists == UNION {[1..n -> Channels] : n \in 0..MaxNoted}

\* main.py:130-131: one iteration, or the end of the loop and the return.
BroadcastDisconnect ==
    /\ bcast.pc = "disconnecting"
    /\ IF bcast.i < Len(bcast.disconnected)
       THEN /\ active_connections' =
                  disconnect(active_connections, bcast.disconnected[bcast.i + 1])
            /\ bcast' = [bcast EXCEPT !.i = @ + 1]
       ELSE /\ bcast' = [bcast EXCEPT !.pc = "returned"]
            /\ UNCHANGED active_connections
    /\ UNCHANGED <<startupVars, down, fwTable, clock, trackerVars, ws, rest,
                   dash, net>>

(***************************************************************************)
(* REST handlers (main.py:805-934).  rest[k] names the handler caller k    *)
(* has in flight.                                                          *)
(***************************************************************************)
\* Caller k has neither a request nor a connection in flight.
Free(k) == rest[k] = "none" /\ ws[k].pc = "none"

\* main.py:827-832, up to the adapter's first await.
GetNetwork(k) ==
    /\ Free(k)
    /\ rest' = [rest EXCEPT ![k] = "network"]
    /\ net' = [net EXCEPT ![k] = GetNetworkStatusStart]
    /\ UNCHANGED <<startupVars, down, fwTable, clock, active_connections,
                   trackerVars, ws, dash, bcast>>

\* main.py:830-832: the adapter returned; the handler stamps and answers.
GetNetworkReturn(k) ==
    /\ rest[k] = "network"
    /\ net[k].pc = "done"
    /\ rest' = [rest EXCEPT ![k] = "none"]
    /\ net' = [net EXCEPT ![k] = NetIdle]
    /\ UNCHANGED <<startupVars, down, fwTable, clock, active_connections,
                   trackerVars, ws, dash, bcast>>

\* main.py:835-855: /api/dashboard, up to the await of gather.
GetDashboard(k) ==
    /\ Free(k)
    /\ rest' = [rest EXCEPT ![k] = "dashboard"]
    /\ dash' = [dash EXCEPT ![k] = GetDashboardStart]
    /\ UNCHANGED <<startupVars, down, fwTable, clock, active_connections,
                   trackerVars, ws, net, bcast>>

\* main.py:934: the handler answers with data (or, had a task raised, the
\* framework answers with an error).
GetDashboardReturn(k) ==
    /\ rest[k] = "dashboard"
    /\ dash[k].pc \in {"done", "raised"}
    /\ rest' = [rest EXCEPT ![k] = "none"]
    /\ dash' = [dash EXCEPT ![k] = DashIdle]
    /\ UNCHANGED <<startupVars, down, fwTable, clock, active_connections,
                   trackerVars, ws, net, bcast>>

\* main.py:805-816: /api/nodes and /api/alerts.  get_node_metrics and
\* get_active_alerts have no await and assign no global: the handler runs
\* to its return in one step and the framework then sends what it returned.
GetNodes(k) ==
    /\ Free(k)
    /\ rest' = [rest EXCEPT ![k] = "nodes"]
    /\ UNCHANGED <<startupVars, down, fwTable, clock, active_connections,
                   trackerVars, ws, dash, net, bcast>>

GetAlerts(k) ==
    /\ Free(k)
    /\ rest' = [rest EXCEPT ![k] = "alerts"]
    /\ UNCHANGED <<startupVars, down, fwTable, clock, active_connections,
                   trackerVars, ws, dash, net, bcast>>

RestAnswered(k) ==
    /\ rest[k] \in {"nodes", "alerts"}
    /\ rest' = [rest EXCEPT ![k] = "none"]
    /\ UNCHANGED <<startupVars, down, fwTable, clock, active_connections,
                   trackerVars, ws, dash, net, bcast>>

\* main.py:819-824, 341-398: /api/services, up to the await of the checks
\* (with no service configured get_service_status returns at once).
GetServices(k) ==
    /\ Free(k)
    /\ rest' = [rest EXCEPT ![k] = "services"]
    /\ dash' = [dash EXCEPT ![k] =
                  [DashIdle EXCEPT !.pc = "services",
                                   !.checks = [j \in 1..Len(config.services) |-> None]]]
    /\ UNCHANGED <<startupVars, down, fwTable, clock, active_connections,
                   trackerVars, ws, net, bcast>>

\* main.py:359-395: one check of /api/services settles.
GetServicesCheck(k, j) ==
    /\ rest[k] = "services"
    /\ j \in 1..Len(dash[k].checks)
    /\ dash[k].checks[j] = None
    /\ dash' = [dash EXCEPT ![k].checks[j] = Some(check_service(config.services[j]))]
    /\ UNCHANGED <<startupVars, down, fwTable, clock, active_connections,
                   trackerVars, ws, rest, net, bcast>>

\* main.py:398-413, 822-824: the checks are in; the handler returns.
GetServicesReturn(k) ==
    /\ rest[k] = "services"
    /\ \A j \in 1..Len(dash[k].checks) : dash[k].checks[j] # None
    /\ rest' = [rest EXCEPT ![k] = "none"]
    /\ dash' = [dash EXCEPT ![k] = DashIdle]
    /\ UNCHANGED <<startupVars, down, fwTable, clock, active_connections,
                   trackerVars, ws, net, bcast>>

(***************************************************************************)
(* Startup states.                                                         *)
(***************************************************************************)
\* config.py:16-71, the fields main.py reads.
\* The services and nodes of a configuration that lists some.
ServicesConfigured ==
    <<[name |-> "grafana", url |-> <<"h", "t", "t", "p", ":", "/", "/", "g", "/">>, host |-> <<"g", ".", "l", "a", "n">>, health_path |-> <<"/", "h">>],
      [name |-> "wiki", url |-> <<"h", "t", "t", "p", ":", "/", "/", "w">>, host |-> <<>>, health_path |-> <<>>]>>

NodesConfigured ==
    <<[name |-> "node1", host |-> <<"1", "0", ".", "0", ".", "0", ".", "1", "1", ":", "9", "1", "0", "0">>],
      [name |-> "node2", host |-> <<"1", "0", ".", "0", ".", "0", ".", "1", "2">>],
      [name |-> "nas", host |-> <<"1", "0", ".", "0", ".", "0", ".", "2", "0", ":", "9", "1", "0", "0">>]>>

\* A configuration with the given features enabled, each with its client
\* initialised.
ConfigOf(services, metrics, cluster, appliance) ==
    [services |-> services,
     prometheus |-> [enabled |-> metrics, nodes |-> NodesConfigured],
     kubernetes |-> [enabled |-> cluster],
     firewall |-> [enabled |-> appliance,
                   type |-> IF appliance THEN "fortigate" ELSE "none"]]

ConfigDefault ==
    [services |-> <<>>,
     prometheus |-> [enabled |-> FALSE, nodes |-> <<>>],
     kubernetes |-> [enabled |-> FALSE],
     firewall |-> [enabled |-> FALSE, type |-> "none"]]

\* A world in which every backing system answers.
WorldHealthy ==
    [malformed |-> {},
     svcHttp |-> [u \in {<<"h", "t", "t", "p", ":", "/", "/", "g", "/", "h">>, <<"h", "t", "t", "p", ":", "/", "/", "w">>} |->
        IF u = <<"h", "t", "t", "p", ":", "/", "/", "g", "/", "h">> THEN [status |-> 200, millis |-> 123]
        ELSE [status |-> 503, millis |-> 40]],
     k8sNodes |->
        <<[name |-> "node1",
           conditions |-> <<[type |-> "MemoryPressure", status |-> "False"],
                            [type |-> "Ready", status |-> "True"]>>],
          [name |-> "node2",
           conditions |-> <<[type |-> "Ready", status |-> "False"]>>]>>,
     promSeries |->
        <<[metric |-> "cpu", instance |-> <<"1", "0", ".", "0", ".", "0", ".", "1", "1", ":", "9", "1", "0", "0">>, value |-> 8012],
          [metric |-> "ram", instance |-> <<"1", "0", ".", "0", ".", "0", ".", "1", "1", ":", "9", "1", "0", "0">>, value |-> 4237],
          [metric |-> "disk", instance |-> <<"1", "0", ".", "0", ".", "0", ".", "1", "1", ":", "9", "1", "0", "0">>, value |-> 6651],
          [metric |-> "cpu", instance |-> <<"1", "0", ".", "0", ".", "0", ".", "1", "2", ":", "9", "1", "0", "0">>, value |-> 1004],
          [metric |-> "ram", instance |-> <<"1", "0", ".", "0", ".", "0", ".", "1", "2", ":", "9", "1", "0", "0">>, value |-> 2096]>>,
     promAlerts |->
        <<[metric |-> [alertname |-> <<"H", "i", "g", "h", "C", "P", "U", "N", "o", "d", "e">>,
                       instance |-> <<"1", "0", ".", "0", ".", "0", ".", "1", "1", ":", "9", "1", "0", "0">>,
                       severity |-> "critical",
                       summary |-> <<"c", "p", "u", " ", "h", "i", "g", "h">>]],
          [metric |-> [alertname |-> <<"D", "N", "S", "L", "a", "t", "e", "n", "c", "y">>]]>>,
     k8sPods |-> <<[phase |-> "Running"], [phase |-> "Pending"],
                   [phase |-> "Unknown"], [phase |-> "Succeeded"],
                   [phase |-> "Running"]>>,
     k8sNamespaces |-> <<"default", "kube-system", "monitoring">>,
     k8sEvents |->
        <<[last_timestamp |-> <<-4000>>, event_time |-> <<>>,
           message |-> <<"r", "e", "s", "t", "a", "r", "t">>, type |-> "Warning",
           source |-> [component |-> "kubelet"], namespace |-> "default",
           reason |-> "BackOff"],
          [last_timestamp |-> <<>>, event_time |-> <<-30>>,
           message |-> [i \in 1..81 |-> "x"], type |-> "",
           source |-> [component |-> ""], namespace |-> "monitoring",
           reason |-> "Pulled"],
          [last_timestamp |-> <<>>, event_time |-> <<>>,
           message |-> <<>>, type |-> "Normal",
           source |-> [component |-> "scheduler"], namespace |-> "default",
           reason |-> "Scheduled"]>>,
     fwFail |-> {},
     fwBadJson |-> {},
     fwMalformed |-> FALSE,
     fwSessionError |-> FALSE,
     fwHttp |-> [e \in FwEndpoints |-> 200],
     fwJson |-> [e \in FwEndpoints \ {"interface"} |->
        CASE e = "status" ->
                [results |-> [hostname |-> "fw01", model_name |-> "FortiGate",
                              model_number |-> "60F"],
                 version |-> "v7.2.5"]
          [] e = "resource" ->
                [results |-> [cpu |-> <<[current |-> 12]>>,
                              mem |-> <<[current |-> 48]>>]]
          [] e = "perf" -> [results |-> [uptime |-> 3942000]]
          [] e = "dhcp" ->
                [results |-> <<[ip |-> "10.0.0.5", mac |-> "aa:01"],
                               [ip |-> "", mac |-> "aa:02"],
                               [ip |-> "10.0.0.7", mac |-> "aa:03"]>>]
          [] e = "arp" ->
                [results |-> <<[mac |-> "aa:01"], [mac |-> "00:00:00:00:00:00"],
                               [mac |-> "aa:01"], [mac |-> "aa:03"]>>]]]

\* What every startup shares: nothing connected, nothing in flight, the rate
\* tracker empty (main.py:134-138).
InitCommon ==
    /\ clock = 0
    /\ active_connections = <<>>
    /\ previous_interface_stats = <<>>
    /\ last_interface_poll = None
    /\ ws = [k \in Callers |-> WsNone]
    /\ rest = [k \in Callers |-> "none"]
    /\ dash = [k \in Callers |-> DashIdle]
    /\ net = [k \in Callers |-> NetIdle]
    /\ bcast = BcastIdle

\* A configuration whose appliance feature is live: enabled, with a token,
\* of the one supported type.
ConfigAppliance ==
    [ConfigDefault EXCEPT !.firewall = [enabled |-> TRUE, type |-> "fortigate"]]

(***************************************************************************)
(* SpecRate: one client polls /api/network again and again while time      *)
(* passes, the counters move or reset and an interface appears.            *)
(***************************************************************************)
InitRate ==
    /\ InitCommon
    /\ down = {}
    /\ FORTIGATE_API_KEY = "token"
    /\ config = ConfigAppliance
    /\ prom = FALSE
    /\ k8s_core_v1 = FALSE
    /\ \E bad \in BOOLEAN : world = [WorldHealthy EXCEPT !.fwMalformed = bad]
    /\ fwTable = [wan1 |-> <<1000, 500>>, port2 |-> FALSE]

NextRate ==
    \/ Tick
    \/ Traffic
    \/ InterfaceAppears
    \/ GetNetwork(1)
    \/ NetSystemStatus(1)
    \/ NetResourceUsage(1)
    \/ NetPerformanceStatus(1)
    \/ NetInterface(1)
    \/ NetDhcp(1)
    \/ NetArp(1)
    \/ GetNetworkReturn(1)

SpecRate == InitRate /\ [][NextRate]_vars

(***************************************************************************)
(* SpecNet: overlapping /api/network requests against a live appliance.    *)
(***************************************************************************)
InitNet ==
    /\ InitCommon
    /\ down = {}
    /\ FORTIGATE_API_KEY = "token"
    /\ config = ConfigAppliance
    /\ prom = FALSE
    /\ k8s_core_v1 = FALSE
    /\ world = WorldHealthy
    /\ fwTable = [wan1 |-> <<1000, 500>>, port2 |-> FALSE]

NextNet ==
    \/ Tick
    \/ TrafficBurst
    \/ \E k \in Callers : GetNetwork(k)
    \/ \E k \in Callers : NetSystemStatus(k)
    \/ \E k \in Callers : NetResourceUsage(k)
    \/ \E k \in Callers : NetPerformanceStatus(k)
    \/ \E k \in Callers : NetInterface(k)
    \/ \E k \in Callers : NetDhcp(k)
    \/ \E k \in Callers : NetArp(k)
    \/ \E k \in Callers : GetNetworkReturn(k)

SpecNet == InitNet /\ [][NextNet]_vars

(***************************************************************************)
(* SpecAsm: one client polls /api/dashboard under every feature            *)
(* configuration, with and without configured services, while any subset   *)
(* of the adapters fails, by transport or by a malformed answer.           *)
(***************************************************************************)
InitAsm ==
    /\ InitCommon
    /\ \E services \in {<<>>, ServicesConfigured} :
       \E metrics \in BOOLEAN, cluster \in BOOLEAN, appliance \in BOOLEAN :
          /\ config = ConfigOf(services, metrics, cluster, appliance)
          /\ prom = metrics
          /\ k8s_core_v1 = cluster
          /\ FORTIGATE_API_KEY = IF appliance THEN "token" ELSE ""
    /\ \E failing \in SUBSET Adapters : \E transport \in BOOLEAN :
          /\ down = IF transport THEN failing ELSE {}
          /\ world = [WorldHealthy EXCEPT
                         !.malformed = IF transport THEN {} ELSE failing]
    /\ fwTable = [wan1 |-> <<1000, 500>>, port2 |-> FALSE]

NextAsm ==
    \/ Tick
    \/ GetDashboard(1)
    \/ DashTasksStart(1)
    \/ \E j \in 1..Len(ServicesConfigured) : CheckServiceSettle(1, j)
    \/ ServicesReturn(1)
    \/ NetSystemStatus(1)
    \/ NetResourceUsage(1)
    \/ NetPerformanceStatus(1)
    \/ NetInterface(1)
    \/ NetDhcp(1)
    \/ NetArp(1)
    \/ NetworkReturn(1)
    \/ DashMerge(1)
    \/ GetDashboardReturn(1)

SpecAsm == InitAsm /\ [][NextAsm]_vars

(***************************************************************************)
(* SpecLoop: clients connect to /ws, are served a snapshot every 5 seconds *)
(* and go away at any moment.  The features are disabled; one service is   *)
(* configured and answers.                                                 *)
(***************************************************************************)
InitLoop ==
    /\ InitCommon
    /\ down = {}
    /\ config = [ConfigDefault EXCEPT !.services = SubSeq(ServicesConfigured, 1, 1)]
    /\ prom = FALSE
    /\ k8s_core_v1 = FALSE
    /\ FORTIGATE_API_KEY = ""
    /\ world = WorldHealthy
    /\ fwTable = [wan1 |-> <<1000, 500>>, port2 |-> FALSE]

NextLoop ==
    \/ Tick
    \/ \E k \in Callers : WsCall(k)
    \/ \E k \in Callers : ClientGone(k)
    \/ \E k \in Callers : WsAccept(k)
    \/ \E k \in Callers : DashTasksStart(k)
    \/ \E k \in Callers : \E j \in 1..Len(ServicesConfigured) : CheckServiceSettle(k, j)
    \/ \E k \in Callers : ServicesReturn(k)
    \/ \E k \in Callers : DashMerge(k)
    \/ \E k \in Callers : WsSend(k)
    \/ \E k \in Callers : WsSendSettle(k)
    \/ \E k \in Callers : WsWake(k)

SpecLoop == InitLoop /\ [][NextLoop]_vars

(***************************************************************************)
(* SpecLoopFair: SpecLoop observed without end.  The event loop runs every *)
(* task that is ready, an awaited accept, request or send settles and time *)
(* goes on: weak fairness on each of these steps.  Nothing makes a client  *)
(* connect or go away.  The loop uses the clock only through differences   *)
(* (a sleep of 5 seconds), so an observation that has reached the end of   *)
(* its span starts over from the present: with no snapshot in flight, the  *)
(* origin of time moves to now, every stored instant moves with it and the *)
(* clients' logs start empty.                                              *)
(***************************************************************************)
Rebase ==
    /\ clock = MaxTicks * SleepSeconds
    /\ \A k \in Callers : dash[k].data = <<>> /\ ws[k].data = <<>>
    /\ clock' = 0
    /\ ws' = [k \in Callers |->
                [ws[k] EXCEPT !.wake = IF @ > clock THEN @ - clock ELSE 0,
                              !.received = <<>>]]
    /\ UNCHANGED <<startupVars, down, fwTable, active_connections, trackerVars,
                   rest, dash, net, bcast>>

NextLoopFair ==
    \/ NextLoop
    \/ Rebase

LoopFairness ==
    /\ WF_vars(Tick)
    /\ WF_vars(Rebase)
    /\ \A k \in Callers :
          /\ WF_vars(WsAccept(k))
          /\ WF_vars(DashTasksStart(k))
          /\ \A j \in 1..Len(ServicesConfigured) : WF_vars(CheckServiceSettle(k, j))
          /\ WF_vars(ServicesReturn(k))
          /\ WF_vars(DashMerge(k))
          /\ WF_vars(WsSend(k))
          /\ WF_vars(WsSendSettle(k))
          /\ WF_vars(WsWake(k))

SpecLoopFair == InitLoop /\ [][NextLoopFair]_vars /\ LoopFairness

(***************************************************************************)
(* SpecBcast: broadcasts over the registered channels, each one running    *)
(* while the connection loops are suspended (all of it falls into their    *)
(* sleep); clients go away at any moment, also in the middle of one.       *)
(***************************************************************************)
InitBcast ==
    /\ InitCommon
    /\ down = {}
    /\ config = ConfigDefault
    /\ prom = FALSE
    /\ k8s_core_v1 = FALSE
    /\ FORTIGATE_API_KEY = ""
    /\ world = WorldHealthy
    /\ fwTable = [wan1 |-> <<1000, 500>>, port2 |-> FALSE]

\* A step of some connection's loop.
LoopStep ==
    \/ \E k \in Callers : WsCall(k)
    \/ \E k \in Callers : WsAccept(k)
    \/ \E k \in Callers : DashTasksStart(k)
    \/ \E k \in Callers : DashMerge(k)
    \/ \E k \in Callers : WsSend(k)
    \/ \E k \in Callers : WsSendSettle(k)

NextBcast ==
    \/ bcast.pc # "sending" /\ LoopStep
    \/ \E k \in Callers : ClientGone(k)
    \/ Broadcast
    \/ BroadcastSend

SpecBcast == InitBcast /\ [][NextBcast]_vars

(***************************************************************************)
(* SpecReg: ConnectionManager.disconnect applied, call after call, to      *)
(* every registry and every list of websockets within the bounds.          *)
(***************************************************************************)
InitReg ==
    /\ clock = 0
    /\ active_connections \in Registries
    /\ previous_interface_stats = <<>>
    /\ last_interface_poll = None
    /\ ws = [k \in Callers |-> WsNone]
    /\ rest = [k \in Callers |-> "none"]
    /\ dash = [k \in Callers |-> DashIdle]
    /\ net = [k \in Callers |-> NetIdle]
    /\ \E noted \in NotedLists :
          bcast = [BcastIdle EXCEPT !.pc = "disconnecting",
                                    !.disconnected = noted]
    /\ down = {}
    /\ config = ConfigDefault
    /\ prom = FALSE
    /\ k8s_core_v1 = FALSE
    /\ FORTIGATE_API_KEY = ""
    /\ world = WorldHealthy
    /\ fwTable = [wan1 |-> <<1000, 500>>, port2 |-> FALSE]

NextReg == BroadcastDisconnect

SpecReg == InitReg /\ [][NextReg]_vars

(***************************************************************************)
(* SpecSvc: /api/dashboard with the features disabled and three services   *)
(* configured; each service answers with one of the statuses below or not  *)
(* at all (a timeout or a transport error).                                *)
(***************************************************************************)
\* response.status (main.py:375) of a service that answers.
ServiceStatuses == {200, 301, 399, 400, 404, 503}

ServicesThree ==
    ServicesConfigured \o
    <<[name |-> "nas", url |-> <<"h", "t", "t", "p", ":", "/", "/", "n", "/">>, host |-> <<>>, health_path |-> <<>>]>>

\* What the services answer: a response for some of the checked urls.
SvcWorlds ==
    LET urls == {CheckUrl(ServicesThree[j]) : j \in 1..Len(ServicesThree)}
    IN  UNION {[answering -> [status : ServiceStatuses, millis : {123}]] :
                  answering \in SUBSET urls}

InitSvc ==
    /\ InitCommon
    /\ down \in {{}, {"services"}}
    /\ config = [ConfigDefault EXCEPT !.services = ServicesThree]
    /\ prom = FALSE
    /\ k8s_core_v1 = FALSE
    /\ FORTIGATE_API_KEY = ""
    /\ \E svcHttp \in SvcWorlds : world = [WorldHealthy EXCEPT !.svcHttp = svcHttp]
    /\ fwTable = [wan1 |-> <<1000, 500>>, port2 |-> FALSE]

NextSvc ==
    \/ GetDashboard(1)
    \/ DashTasksStart(1)
    \/ \E j \in 1..Len(ServicesThree) : CheckServiceSettle(1, j)
    \/ ServicesReturn(1)
    \/ DashMerge(1)
    \/ GetDashboardReturn(1)

SpecSvc == InitSvc /\ [][NextSvc]_vars

(***************************************************************************)
(* SpecNode: /api/dashboard with the metrics and cluster features enabled, *)
(* over every readiness of the first configured node and every presence    *)
(* and value of its cpu, ram and disk samples.                             *)
(***************************************************************************)
\* k8s_node_status.get(node_name, "Unknown") (main.py:249)
NodeReadiness == {"Ready", "NotReady", "Unknown"}
\* Samples in hundredths of a percent, on both sides of the thresholds.
CpuSamples == {None, Some(1000), Some(7999), Some(8000), Some(8500)}
RamSamples == {None, Some(1000), Some(4000), Some(8499), Some(8500)}
DiskSamples == {None, Some(4200)}

\* The cluster's node listing when the first node has the given readiness
\* (a node the cluster does not list is Unknown).
NodeListing(status) ==
    IF status = "Unknown" THEN Tail(WorldHealthy.k8sNodes)
    ELSE [WorldHealthy.k8sNodes EXCEPT ![1].conditions[2].status =
             IF status = "Ready" THEN "True" ELSE "False"]

\* The series of one metric of the first node: one sample or none.
NodeSeries(metric, sample) ==
    IF sample = None THEN <<>>
    ELSE <<[metric |-> metric, instance |-> NodesConfigured[1].host,
            value |-> sample[1]]>>

InitNode ==
    /\ InitCommon
    /\ down = {}
    /\ config = ConfigOf(<<>>, TRUE, TRUE, FALSE)
    /\ prom = TRUE
    /\ k8s_core_v1 = TRUE
    /\ FORTIGATE_API_KEY = ""
    /\ \E status \in NodeReadiness, cpu \in CpuSamples, ram \in RamSamples,
          disk \in DiskSamples :
          world = [WorldHealthy EXCEPT
                      !.k8sNodes = NodeListing(status),
                      !.promSeries = NodeSeries("cpu", cpu) \o NodeSeries("ram", ram)
                                     \o NodeSeries("disk", disk)
                                     \o SubSeq(@, 4, Len(@))]
    /\ fwTable = [wan1 |-> <<1000, 500>>, port2 |-> FALSE]

NextNode ==
    \/ GetDashboard(1)
    \/ DashTasksStart(1)
    \/ DashMerge(1)
    \/ GetDashboardReturn(1)

SpecNode == InitNode /\ [][NextNode]_vars

(***************************************************************************)
(* SpecFrame: caller 1 makes the queries of the REST surface, caller 2 is  *)
(* a /ws connection; the appliance feature is disabled, without a token,   *)
(* of an unsupported type or live, and the interface table is served, not  *)
(* served or served broken.                                                *)
(***************************************************************************)
\* config.firewall and FORTIGATE_API_KEY (main.py:81-83, 556-566)
ApplianceSetups ==
    {[enabled |-> FALSE, key |-> "token", type |-> "fortigate"],
     [enabled |-> TRUE, key |-> "", type |-> "fortigate"],
     [enabled |-> TRUE, key |-> "token", type |-> "pfsense"],
     [enabled |-> TRUE, key |-> "token", type |-> "fortigate"]}

\* What becomes of the interface-table call (main.py:644-701).
InterfaceOutcomes == {"served", "raises", "http500", "badjson", "malformed"}

InitFrame ==
    /\ InitCommon
    /\ down = {}
    /\ prom = TRUE
    /\ k8s_core_v1 = TRUE
    /\ \E setup \in ApplianceSetups, outcome \in InterfaceOutcomes :
        /\ config = [ConfigOf(SubSeq(ServicesConfigured, 1, 1), TRUE, TRUE,
                              setup.enabled)
                        EXCEPT !.firewall.type = setup.type]
        /\ FORTIGATE_API_KEY = setup.key
        \* An invocation that returns early makes no call: there the table
        \* is always one that would be served.
        /\ (outcome # "served") =>
              (setup.enabled /\ setup.key # "" /\ setup.type = "fortigate")
        /\ world = [WorldHealthy EXCEPT
             !.fwFail = IF outcome = "raises" THEN {"interface"} ELSE {},
             !.fwHttp = [@ EXCEPT !["interface"] =
                            IF outcome = "http500" THEN 500 ELSE 200],
             !.fwBadJson = IF outcome = "badjson" THEN {"interface"} ELSE {},
             !.fwMalformed = (outcome = "malformed")]
    /\ fwTable = [wan1 |-> <<1000, 500>>, port2 |-> FALSE]

NextFrame ==
    \/ Tick
    \/ GetNodes(1)
    \/ GetAlerts(1)
    \/ RestAnswered(1)
    \/ GetServices(1)
    \/ GetServicesCheck(1, 1)
    \/ GetServicesReturn(1)
    \/ GetNetwork(1)
    \/ GetNetworkReturn(1)
    \/ GetDashboard(1)
    \/ GetDashboardReturn(1)
    \/ WsCall(2)
    \/ ClientGone(2)
    \/ WsAccept(2)
    \/ WsSend(2)
    \/ WsSendSettle(2)
    \/ WsWake(2)
    \/ \E k \in {1, 2} :
          \/ DashTasksStart(k)
          \/ CheckServiceSettle(k, 1)
          \/ ServicesReturn(k)
          \/ NetSystemStatus(k)
          \/ NetResourceUsage(k)
          \/ NetPerformanceStatus(k)
          \/ NetInterface(k)
          \/ NetDhcp(k)
          \/ NetArp(k)
          \/ NetworkReturn(k)
          \/ DashMerge(k)

SpecFrame == InitFrame /\ [][NextFrame]_vars

(***************************************************************************)
(* SpecFail: /api/network against a live appliance on which each of the    *)
(* six calls, independently, is served, raises (transport error, timeout), *)
(* answers 500 or answers 200 with a body that does not parse.             *)
(***************************************************************************)
CallOutcomes == InterfaceOutcomes \ {"malformed"}

InitFail ==
    /\ InitCommon
    /\ down = {}
    /\ FORTIGATE_API_KEY = "token"
    /\ config = ConfigAppliance
    /\ prom = FALSE
    /\ k8s_core_v1 = FALSE
    /\ \E outcome \in [FwEndpoints -> CallOutcomes] :
          world = [WorldHealthy EXCEPT
             !.fwFail = {e \in FwEndpoints : outcome[e] = "raises"},
             !.fwHttp = [e \in FwEndpoints |->
                            IF outcome[e] = "http500" THEN 500 ELSE 200],
             !.fwBadJson = {e \in FwEndpoints : outcome[e] = "badjson"}]
    /\ fwTable = [wan1 |-> <<1000, 500>>, port2 |-> FALSE]

NextFail ==
    \/ GetNetwork(1)
    \/ NetSystemStatus(1)
    \/ NetResourceUsage(1)
    \/ NetPerformanceStatus(1)
    \/ NetInterface(1)
    \/ NetDhcp(1)
    \/ NetArp(1)
    \/ GetNetworkReturn(1)

SpecFail == InitFail /\ [][NextFail]_vars

(***************************************************************************)
(* SpecActivity: /api/dashboard with the cluster feature enabled, over     *)
(* event lists of every length up to MaxEvents, in several orders of their *)
(* timestamps, some events without last_timestamp or without any          *)
(* timestamp, with messages on both sides of 80 characters.                *)
(***************************************************************************)
\* Events the cluster holds (the listing is cut to 20 by the server).
MaxEvents == 21
\* Orders of the timestamps: event i is (i * shuffle) % 23 minutes old.
Shuffles == {1, 5, 7, 11, 22}
\* len(event.message)
MessageLengths == <<0, 77, 80, 81, 120>>

\* Event i of a listing.  Every fourth event has no last_timestamp, every
\* eighth no timestamp at all; reason names the event.
ActivityEvent(i, shuffle) ==
    LET instant == 0 - 60 * ((i * shuffle) % 23)
    IN  [last_timestamp |-> IF i % 4 = 0 THEN None ELSE Some(instant),
         event_time |-> IF i % 4 = 0 /\ i % 8 # 0 THEN Some(instant) ELSE None,
         message |-> [c \in 1..MessageLengths[(i % 5) + 1] |->
                        <<"a", "b", "c">>[(c % 3) + 1]],
         type |-> IF i % 2 = 0 THEN "Warning" ELSE "",
         source |-> [component |-> "kubelet"],
         namespace |-> "default",
         reason |-> "event" \o ToString(i)]

InitActivity ==
    /\ InitCommon
    /\ down = {}
    /\ config = ConfigOf(<<>>, FALSE, TRUE, FALSE)
    /\ prom = FALSE
    /\ k8s_core_v1 = TRUE
    /\ FORTIGATE_API_KEY = ""
    /\ \E n \in 0..MaxEvents, shuffle \in Shuffles :
          world = [WorldHealthy EXCEPT
                      !.k8sEvents = [i \in 1..n |-> ActivityEvent(i, shuffle)]]
    /\ fwTable = [wan1 |-> <<1000, 500>>, port2 |-> FALSE]

NextActivity ==
    \/ GetDashboard(1)
    \/ DashTasksStart(1)
    \/ DashMerge(1)
    \/ GetDashboardReturn(1)

SpecActivity == InitActivity /\ [][NextActivity]_vars

(***************************************************************************)
(* SpecAlert: /api/dashboard with the metrics feature enabled while two    *)
(* alerts fire, their names drawn from AlertNames.                         *)
(***************************************************************************)
\* metric["alertname"] of a firing alert.
AlertNames ==
    {<<"H", "i", "g", "h", "C", "P", "U", "U", "s", "a", "g", "e">>, <<"N", "o", "d", "e", "M", "e", "m", "o", "r", "y", "P", "r", "e", "s", "s", "u", "r", "e">>, <<"S", "T", "O", "R", "A", "G", "E">>,
     <<"P", "r", "o", "g", "r", "a", "m", "E", "r", "r", "o", "r">>, <<"P", "o", "d", "D", "i", "s", "k", "F", "u", "l", "l">>, <<"K", "u", "b", "e", "P", "o", "d", "C", "r", "a", "s", "h", "L", "o", "o", "p", "i", "n", "g">>,
     <<"K", "u", "b", "e", "N", "o", "d", "e", "N", "o", "t", "R", "e", "a", "d", "y">>, <<"C", "o", "n", "t", "a", "i", "n", "e", "r", "H", "T", "T", "P", "E", "r", "r", "o", "r", "s">>, <<"R", "e", "p", "l", "i", "c", "a", "M", "i", "s", "m", "a", "t", "c", "h">>,
     <<"N", "o", "d", "e", "D", "o", "w", "n">>, <<"H", "o", "s", "t", "H", "T", "T", "P", "L", "a", "t", "e", "n", "c", "y">>, <<"I", "n", "s", "t", "a", "n", "c", "e", "N", "e", "t", "w", "o", "r", "k", "D", "o", "w", "n">>,
     <<"D", "N", "S", "L", "a", "t", "e", "n", "c", "y">>, <<"T", "C", "P", "C", "o", "n", "n", "e", "c", "t", "i", "o", "n", "R", "e", "s", "e", "t">>, <<"n", "e", "t", "w", "o", "r", "k">>,
     <<"W", "a", "t", "c", "h", "d", "o", "g">>, <<"T", "a", "r", "g", "e", "t", "D", "o", "w", "n">>, <<>>}

InitAlert ==
    /\ InitCommon
    /\ down = {}
    /\ config = ConfigOf(<<>>, TRUE, FALSE, FALSE)
    /\ prom = TRUE
    /\ k8s_core_v1 = FALSE
    /\ FORTIGATE_API_KEY = ""
    /\ \E first \in AlertNames, second \in AlertNames :
          world = [WorldHealthy EXCEPT
                      !.promAlerts = <<[metric |-> [alertname |-> first]],
                                       [metric |-> [alertname |-> second]]>>]
    /\ fwTable = [wan1 |-> <<1000, 500>>, port2 |-> FALSE]

NextAlert ==
    \/ GetDashboard(1)
    \/ DashTasksStart(1)
    \/ DashMerge(1)
    \/ GetDashboardReturn(1)

SpecAlert == InitAlert /\ [][NextAlert]_vars

(***************************************************************************)
(* SpecCluster: /api/dashboard with the cluster feature enabled, over      *)
(* several pod and node listings, with any of the three listing calls      *)
(* raising and with a pod or node listing whose last item cannot be read.  *)
(***************************************************************************)
\* pod.status.phase of the pods of a cluster ("" is no phase).
PodPhaseLists ==
    {<<>>,
     <<"Running", "Pending", "Unknown", "Succeeded", "Running">>,
     <<"Failed", "Unknown", "Failed">>,
     <<"Unknown", "", "Running", "Pending", "Pending", "Failed">>}

ClusterNodeLists ==
    {<<>>,
     WorldHealthy.k8sNodes,
     [WorldHealthy.k8sNodes EXCEPT ![2].conditions[1].status = "True"]}

InitCluster ==
    /\ InitCommon
    /\ down \in SUBSET ListingCalls
    /\ config = ConfigOf(<<>>, FALSE, TRUE, FALSE)
    /\ prom = FALSE
    /\ k8s_core_v1 = TRUE
    /\ FORTIGATE_API_KEY = ""
    /\ \E phases \in PodPhaseLists, nodes \in ClusterNodeLists,
          unreadable \in SUBSET {"list_pod_for_all_namespaces", "list_node"} :
          world = [WorldHealthy EXCEPT
                      !.malformed = unreadable,
                      !.k8sPods = [i \in 1..Len(phases) |-> [phase |-> phases[i]]],
                      !.k8sNodes = nodes]
    /\ fwTable = [wan1 |-> <<1000, 500>>, port2 |-> FALSE]

NextCluster ==
    \/ GetDashboard(1)
    \/ DashTasksStart(1)
    \/ DashMerge(1)
    \/ GetDashboardReturn(1)

SpecCluster == InitCluster /\ [][NextCluster]_vars

(***************************************************************************)
(* SpecAge: /api/dashboard with the cluster feature enabled and one event  *)
(* in the cluster, of an age around each limit of format_time_ago, also in *)
(* the future, its instant in last_timestamp or in event_time.             *)
(***************************************************************************)
\* int((now - event_time).total_seconds())
Ages ==
    {-86400, -3600, -61, -60, -59, -2, -1, 0, 1, 2, 9, 10, 58, 59, 60, 61,
     119, 120, 121, 599, 600, 3540, 3599, 3600, 3601, 7199, 7200, 35999,
     36000, 82800, 86399, 86400, 86401, 172799, 172800, 863999, 864000,
     8640000}

InitAge ==
    /\ InitCommon
    /\ down = {}
    /\ config = ConfigOf(<<>>, FALSE, TRUE, FALSE)
    /\ prom = FALSE
    /\ k8s_core_v1 = TRUE
    /\ FORTIGATE_API_KEY = ""
    /\ \E age \in Ages, last \in BOOLEAN :
          world = [WorldHealthy EXCEPT
                      !.k8sEvents =
                         <<[@[1] EXCEPT
                              !.last_timestamp = IF last THEN Some(0 - age) ELSE None,
                              !.event_time = IF last THEN None ELSE Some(0 - age)]>>]
    /\ fwTable = [wan1 |-> <<1000, 500>>, port2 |-> FALSE]

NextAge ==
    \/ GetDashboard(1)
    \/ DashTasksStart(1)
    \/ DashMerge(1)
    \/ GetDashboardReturn(1)

SpecAge == InitAge /\ [][NextAge]_vars

(***************************************************************************)
(* SpecBcastLive: broadcasts while the connection loops run on: a loop may *)
(* deregister its channel while a broadcast is suspended in a send.  Only  *)
(* registrations wait for the broadcast to return, so that a channel       *)
(* registered when a broadcast returns was registered all through it.      *)
(***************************************************************************)
NextBcastLive ==
    \/ \E k \in Callers : WsCall(k)
    \/ bcast.pc # "sending" /\ \E k \in Callers : WsAccept(k)
    \/ \E k \in Callers : DashTasksStart(k)
    \/ \E k \in Callers : DashMerge(k)
    \/ \E k \in Callers : WsSend(k)
    \/ \E k \in Callers : WsSendSettle(k)
    \/ \E k \in Callers : ClientGone(k)
    \/ Broadcast
    \/ BroadcastSend

SpecBcastLive == InitBcast /\ [][NextBcastLive]_vars

(***************************************************************************)
(* Claims about the assembler.                                             *)
(***************************************************************************)
SnapshotKeys ==
    {"timestamp", "services", "infrastructure", "alerts", "activity", "network"}

\* C1: under each of the 8 feature combinations the snapshot get_dashboard
\* returns has exactly the six top-level keys, and the block of every
\* disabled feature is its empty-shape placeholder: nodes [], alerts
\* {items: [], count: 0}, cluster with all-zero tallies, activity [], the
\* network placeholder with available false.
C1_EveryKeyPresent ==
    \A k \in Callers : dash[k].pc = "done" =>
        LET data == dash[k].data
        IN  /\ DOMAIN data = SnapshotKeys
            /\ DOMAIN data.infrastructure = {"nodes", "cluster"}
            /\ ~config.prometheus.enabled =>
                  /\ data.infrastructure.nodes = <<>>
                  /\ data.alerts = [items |-> <<>>, count |-> 0]
            /\ ~config.kubernetes.enabled =>
                  /\ data.infrastructure.cluster =
                        [pods |-> [running |-> 0, pending |-> 0, failed |-> 0,
                                   total |-> 0],
                         namespaces |-> 0, nodes |-> 0, nodesReady |-> 0]
                  /\ data.activity = <<>>
            /\ ~config.firewall.enabled =>
                  data.network =
                     [firewall |-> [hostname |-> "Unknown", model |-> "Unknown",
                                    firmware |-> "Unknown", uptime |-> 0,
                                    uptimeFormatted |-> "Unknown", cpu |-> 0,
                                    memory |-> 0, status |-> "unknown"],
                      interfaces |-> <<>>, dhcpLeases |-> 0, deviceCount |-> 0,
                      available |-> FALSE]

\* C1 witness: a snapshot assembled with the cluster feature alone enabled:
\* the cluster block carries data, the metrics and appliance blocks are
\* placeholders.
C1_Witness ==
    /\ dash[1].pc = "done"
    /\ ~config.prometheus.enabled
    /\ config.kubernetes.enabled
    /\ ~config.firewall.enabled
    /\ dash[1].data.infrastructure.cluster.pods.total > 0
    /\ dash[1].data.infrastructure.nodes = <<>>
    /\ dash[1].data.alerts.count = 0
    /\ ~dash[1].data.network.available

\* An assembly with every feature disabled and no service configured.
C2_AllDisabled(k) ==
    /\ dash[k].pc = "done"
    /\ config.services = <<>>
    /\ ~config.prometheus.enabled
    /\ ~config.kubernetes.enabled
    /\ ~config.firewall.enabled

C3_Failing == down \cup world.malformed

\* What each adapter hands back when its backing calls answer.
C3_Services ==
    IF config.services = <<>>
    THEN [services |-> <<>>, healthScore |-> 1000, upCount |-> 0, totalCount |-> 0]
    ELSE [services |->
             <<[name |-> "grafana", url |-> <<"h", "t", "t", "p", ":", "/", "/", "g", ".", "l", "a", "n">>, status |-> "up",
                responseTime |-> <<123>>],
               [name |-> "wiki", url |-> <<"h", "t", "t", "p", ":", "/", "/", "w">>, status |-> "degraded",
                responseTime |-> <<40>>]>>,
          healthScore |-> 500, upCount |-> 1, totalCount |-> 2]

C3_Nodes ==
    <<[name |-> "node1", ip |-> <<"1", "0", ".", "0", ".", "0", ".", "1", "1">>,
       status |-> IF config.kubernetes.enabled THEN "Ready" ELSE "Unknown",
       cpu |-> <<801>>, ram |-> <<424>>, disk |-> <<665>>, health |-> "warning"],
      [name |-> "node2", ip |-> <<"1", "0", ".", "0", ".", "0", ".", "1", "2">>,
       status |-> IF config.kubernetes.enabled THEN "NotReady" ELSE "Unknown",
       cpu |-> <<100>>, ram |-> <<210>>, disk |-> <<>>,
       health |-> IF config.kubernetes.enabled THEN "error" ELSE "healthy"],
      [name |-> "nas", ip |-> <<"1", "0", ".", "0", ".", "0", ".", "2", "0">>, status |-> "Unknown",
       cpu |-> <<>>, ram |-> <<>>, disk |-> <<>>, health |-> "unknown"]>>

C3_Alerts ==
    <<[id |-> <<"H", "i", "g", "h", "C", "P", "U", "N", "o", "d", "e", "_", "1", "0", ".", "0", ".", "0", ".", "1", "1", "_", "9", "1", "0", "0">>, alertname |-> <<"H", "i", "g", "h", "C", "P", "U", "N", "o", "d", "e">>,
       severity |-> "critical", instance |-> <<"1", "0", ".", "0", ".", "0", ".", "1", "1", ":", "9", "1", "0", "0">>,
       description |-> <<"c", "p", "u", " ", "h", "i", "g", "h">>, category |-> "resources", time |-> 0],
      [id |-> <<"D", "N", "S", "L", "a", "t", "e", "n", "c", "y", "_">>, alertname |-> <<"D", "N", "S", "L", "a", "t", "e", "n", "c", "y">>,
       severity |-> "warning", instance |-> <<>>,
       description |-> <<"A", "l", "e", "r", "t", ":", " ", "D", "N", "S", "L", "a", "t", "e", "n", "c", "y">>, category |-> "network",
       time |-> 0]>>

C3_Cluster ==
    [pods |-> [running |-> 2, pending |-> 1, failed |-> 1, total |-> 5],
     namespaces |-> 3, nodes |-> 2, nodesReady |-> 1]

C3_Activity ==
    <<[time |-> "", message |-> [i \in 1..80 |-> IF i <= 77 THEN "x" ELSE "."],
       type |-> "Normal", source |-> "", namespace |-> "monitoring",
       reason |-> "Pulled"],
      [time |-> "", message |-> <<"r", "e", "s", "t", "a", "r", "t">>, type |-> "Warning",
       source |-> "kubelet", namespace |-> "default", reason |-> "BackOff"],
      [time |-> "", message |-> <<>>, type |-> "Normal",
       source |-> "scheduler", namespace |-> "default", reason |-> "Scheduled"]>>

C3_Network ==
    [firewall |-> [hostname |-> "fw01", model |-> "FortiGate-60F",
                   firmware |-> "v7.2.5", uptime |-> 3942000,
                   uptimeFormatted |-> "45d 15h", cpu |-> 12, memory |-> 48,
                   status |-> "online"],
     interfaces |-> <<[name |-> "wan1", ip |-> "203.0.113.2", status |-> "up",
                       speed |-> 1000, rxBytes |-> 1000, txBytes |-> 500,
                       rxRate |-> 0, txRate |-> 0]>>,
     dhcpLeases |-> 2, deviceCount |-> 2, available |-> TRUE]

\* C3: under every feature configuration and every subset of failing
\* adapters (transport error, timeout or malformed answer), get_dashboard
\* never raises, and in the snapshot it returns the block of every enabled
\* adapter that does not fail is what that adapter yields when nothing
\* fails (apart from the instants stamped into alerts and events).
C3_FailureIsolation ==
    \A k \in Callers :
        /\ dash[k].pc # "raised"
        /\ dash[k].pc = "done" =>
              LET data == dash[k].data
              IN  /\ "services" \notin C3_Failing => data.services = C3_Services
                  /\ config.prometheus.enabled /\ "nodes" \notin C3_Failing =>
                        data.infrastructure.nodes = C3_Nodes
                  /\ config.prometheus.enabled /\ "alerts" \notin C3_Failing =>
                        /\ data.alerts.count = Len(C3_Alerts)
                        /\ [i \in 1..Len(data.alerts.items) |->
                              [data.alerts.items[i] EXCEPT !.time = 0]] = C3_Alerts
                  /\ config.kubernetes.enabled /\ "cluster" \notin C3_Failing =>
                        data.infrastructure.cluster = C3_Cluster
                  /\ config.kubernetes.enabled /\ "activity" \notin C3_Failing =>
                        [i \in 1..Len(data.activity) |->
                           [data.activity[i] EXCEPT !.time = ""]] = C3_Activity
                  /\ config.firewall.enabled /\ "network" \notin C3_Failing =>
                        data.network = C3_Network

\* C3 witness: every feature enabled, the alert and network adapters cut off
\* from their backing systems: the snapshot is returned, its alert and
\* network blocks are empty and the other blocks carry their data.
C3_Witness ==
    /\ dash[1].pc = "done"
    /\ down = {"alerts", "network"}
    /\ dash[1].tasks =
          <<"services", "nodes", "alerts", "cluster", "activity", "network">>
    /\ config.services # <<>>
    /\ dash[1].data.alerts.count = 0
    /\ ~dash[1].data.network.available
    /\ dash[1].data.services.upCount = 1
    /\ Len(dash[1].data.infrastructure.nodes) = 3
    /\ dash[1].data.infrastructure.cluster.pods.total = 5
    /\ Len(dash[1].data.activity) = 3

(***************************************************************************)
(* Claims about the connection loop and the registry.                      *)
(***************************************************************************)
Registered(connections, k) ==
    \E i \in 1..Len(connections) : connections[i] = k

C9_ClosedIsTerminal ==
    [][\A k \in Callers :
          /\ (ws[k].pc = "sending" /\ ws[k].gone /\ ws'[k] # ws[k]) =>
                /\ ws'[k].pc = "closed"
                /\ ~Registered(active_connections', k)
          /\ (ws[k].pc \in WsOpen /\ ws'[k].pc \notin WsOpen) =>
                /\ ws[k].pc = "sending" /\ ws[k].gone
                /\ ws'[k].pc = "closed"
          /\ ws[k].pc = "closed" =>
                /\ ws'[k] = ws[k]
                /\ dash[k] = DashIdle /\ dash'[k] = DashIdle
                /\ net[k] = NetIdle /\ net'[k] = NetIdle
                /\ ~Registered(active_connections', k)
      ]_vars

\* C9 witness: a connection that was served a snapshot, whose client then
\* went away, and which the failed send of the next cycle closed.
C9_Witness ==
    /\ ws[1].pc = "closed"
    /\ ws[1].gone
    /\ ws[1].received = <<0>>
    /\ clock = SleepSeconds
    /\ ~Registered(active_connections, 1)
    /\ dash[1] = DashIdle

\* C10: the step that closes one connection removes that channel alone from
\* the registry and changes nothing of any other connection: its loop state,
\* its assembly and adapter calls in flight and its registration stay as
\* they were; and a snapshot reaches a client only by the send of its own
\* connection's loop, which changes no other connection.
C10_OthersUntouched ==
    [][/\ \A k \in Callers : (ws[k].pc \in WsOpen /\ ws'[k].pc = "closed") =>
            /\ active_connections' =
                  SelectSeq(active_connections, LAMBDA c : c # k)
            /\ \A j \in Callers \ {k} :
                  /\ ws'[j] = ws[j]
                  /\ dash'[j] = dash[j]
                  /\ net'[j] = net[j]
                  /\ Registered(active_connections', j)
                        <=> Registered(active_connections, j)
       /\ \A j \in Callers : ws'[j].received # ws[j].received =>
            /\ ws[j].pc = "sending"
            /\ ws'[j].received = Append(ws[j].received, ws[j].data.timestamp)
            /\ \A i \in Callers \ {j} : ws'[i] = ws[i]
      ]_vars

\* C10 witness: connection 1 is closed and gone from the registry while
\* connection 2, served once already, is registered and in the middle of
\* its next send.
C10_Witness ==
    /\ ws[1].pc = "closed"
    /\ active_connections = <<2>>
    /\ ws[2].pc = "sending"
    /\ ~ws[2].gone
    /\ Len(ws[2].received) >= 1
    /\ ws[2].data.timestamp = SleepSeconds

\* C11: ConnectionManager.disconnect is idempotent.  Whatever the registry
\* and the websocket: the call does not raise, the websocket is not
\* registered afterwards, every other channel stays registered in its
\* place, a websocket that was not registered leaves the registry as it
\* was, and a second call for the same websocket changes nothing.
C11_DisconnectIdempotent ==
    [][(bcast.pc = "disconnecting" /\ bcast.i < Len(bcast.disconnected)) =>
          LET websocket == bcast.disconnected[bcast.i + 1]
          IN  /\ bcast'.pc = "disconnecting" /\ bcast'.i = bcast.i + 1
              /\ active_connections' =
                    SelectSeq(active_connections, LAMBDA c : c # websocket)
              /\ ~Registered(active_connections, websocket) =>
                    active_connections' = active_connections
              /\ disconnect(active_connections', websocket)
                    = active_connections'
              /\ (bcast.i >= 1 /\ bcast.disconnected[bcast.i] = websocket) =>
                    active_connections' = active_connections
      ]_vars

\* C11 witness: disconnect was called twice for channel 2 on a registry
\* that held 1, 2 and 3; channels 1 and 3 are registered as before.
C11_Witness ==
    /\ bcast.pc = "disconnecting"
    /\ bcast.disconnected = <<2, 2>>
    /\ bcast.i = 2
    /\ active_connections = <<1, 3>>

(***************************************************************************)
(* Claims about the rate tracker.                                          *)
(***************************************************************************)
\* Caller k's step through the interface block (main.py:642-701).
InterfaceStep(k) == net[k].pc = "interface" /\ net'[k].pc = "dhcp"

\* What the appliance serves for a retained interface right now.
Served(name) ==
    IF name = "wan1" THEN <<fwTable.wan1[1], fwTable.wan1[2]>>
    ELSE <<fwTable.wan1[1] + 6000, fwTable.wan1[2] + 8500>>

\* delta bytes over elapsed seconds in hundredths of a megabit per second.
MbpsHundredths(delta, elapsed) ==
    RoundScaled(delta * 8, elapsed * 1000000, 100)

\* C4: an interface observed with no stored sample (in the first poll after
\* startup, or appearing in a later poll) is reported with rx and tx rate 0,
\* and the counters observed become its stored sample.
C4_FirstObservation ==
    [][\A k \in Callers : InterfaceStep(k) =>
          /\ \E i \in 1..Len(net'[k].network.interfaces) :
                net'[k].network.interfaces[i].name = "wan1"
          /\ \A i \in 1..Len(net'[k].network.interfaces) :
                LET e == net'[k].network.interfaces[i]
                IN  e.name \notin DOMAIN previous_interface_stats =>
                      /\ e.rxRate = 0
                      /\ e.txRate = 0
                      /\ <<e.rxBytes, e.txBytes>> = Served(e.name)
                      /\ e.name \in DOMAIN previous_interface_stats'
                      /\ previous_interface_stats'[e.name] =
                            [rx_bytes |-> e.rxBytes, tx_bytes |-> e.txBytes]
      ]_vars

\* C4 witness: a poll that reports wan1 with a rate (so wan1 was sampled
\* before) and port2, which carries the same traffic, with rate 0: port2 is
\* new in this poll, and its counters are now stored.
C4_Witness ==
    /\ net[1].pc = "dhcp"
    /\ Len(net[1].network.interfaces) = 2
    /\ net[1].network.interfaces[1].name = "wan1"
    /\ net[1].network.interfaces[1].rxRate > 0
    /\ net[1].network.interfaces[2].name = "port2"
    /\ net[1].network.interfaces[2].rxRate = 0
    /\ net[1].network.interfaces[2].txRate = 0
    /\ previous_interface_stats["port2"] =
          [rx_bytes |-> net[1].network.interfaces[2].rxBytes,
           tx_bytes |-> net[1].network.interfaces[2].txBytes]

\* The scenario of C5: wan1 stored as (1000, 500) by the poll at t0, observed
\* as (1625000, 625000) by the poll at t0 + 5 s.
C5_SecondObservation(k) ==
    /\ InterfaceStep(k)
    /\ "wan1" \in DOMAIN previous_interface_stats
    /\ previous_interface_stats["wan1"] = [rx_bytes |-> 1000, tx_bytes |-> 500]
    /\ last_interface_poll = Some(net[k].now - 5)
    /\ fwTable.wan1 = <<1625000, 625000>>

C5_FirstObservation(k) ==
    /\ InterfaceStep(k)
    /\ "wan1" \notin DOMAIN previous_interface_stats
    /\ fwTable.wan1 = <<1000, 500>>

C5_Reports(k, rx_rate, tx_rate) ==
    \E i \in 1..Len(net'[k].network.interfaces) :
        LET e == net'[k].network.interfaces[i]
        IN  e.name = "wan1" /\ e.rxRate = rx_rate /\ e.txRate = tx_rate

\* C5 as claimed: the first observation of wan1 (1000, 500) returns (0, 0)
\* and the second, 5 s later with (1625000, 625000), returns 2.60 Mbps rx and
\* 0.20 Mbps tx.
C5_AsClaimed ==
    [][\A k \in Callers :
          /\ C5_FirstObservation(k) => C5_Reports(k, 0, 0)
          /\ C5_SecondObservation(k) => C5_Reports(k, 260, 20)
      ]_vars

\* C5 amended: the first observation of wan1 (1000, 500) returns (0, 0) and
\* the second, 5 s later with (1625000, 625000), returns 2.60 Mbps rx and
\* 1.00 Mbps tx (624500 bytes * 8 / (5 s * 1e6) = 0.9992, rounded to 2 places).
C5_RateExample ==
    [][\A k \in Callers :
          /\ C5_FirstObservation(k) => C5_Reports(k, 0, 0)
          /\ C5_SecondObservation(k) => C5_Reports(k, 260, 100)
      ]_vars

\* C5 witness: the second observation has been made: deltas 1624000 and
\* 624500 over 5 s, reported as 2.60 and 1.00 Mbps.
C5_Witness ==
    /\ net[1].pc = "dhcp"
    /\ net[1].time_delta_seconds = 5
    /\ net[1].rx_delta = 1624000
    /\ net[1].tx_delta = 624500
    /\ Len(net[1].network.interfaces) = 1
    /\ net[1].network.interfaces[1] =
          [name |-> "wan1", ip |-> "203.0.113.2", status |-> "up",
           speed |-> 1000, rxBytes |-> 1625000, txBytes |-> 625000,
           rxRate |-> 260, txRate |-> 100]

\* C6: a counter lower than its stored sample gives rate 0 for that direction
\* while the other direction's rate comes from its own delta; the stored
\* sample becomes the new (lower) values; no reported rate is ever negative.
C6_CounterReset ==
    [][/\ \A k \in Callers : InterfaceStep(k) =>
            \A i \in 1..Len(net'[k].network.interfaces) :
               LET e == net'[k].network.interfaces[i]
                   t == net'[k].time_delta_seconds
               IN  e.name \in DOMAIN previous_interface_stats =>
                     LET p == previous_interface_stats[e.name]
                     IN  /\ e.rxBytes < p.rx_bytes => e.rxRate = 0
                         /\ e.txBytes < p.tx_bytes => e.txRate = 0
                         /\ e.rxBytes >= p.rx_bytes =>
                               e.rxRate = MbpsHundredths(e.rxBytes - p.rx_bytes, t)
                         /\ e.txBytes >= p.tx_bytes =>
                               e.txRate = MbpsHundredths(e.txBytes - p.tx_bytes, t)
                         /\ previous_interface_stats'[e.name] =
                               [rx_bytes |-> e.rxBytes, tx_bytes |-> e.txBytes]
       /\ \A k \in Callers : \A i \in 1..Len(net'[k].network.interfaces) :
            /\ net'[k].network.interfaces[i].rxRate >= 0
            /\ net'[k].network.interfaces[i].txRate >= 0
      ]_vars

\* C6 witness: wan1's rx counter fell from 1625000 to 1000 while tx rose from
\* 500 to 625000: rx rate 0, tx rate from its own delta, the lower rx stored.
C6_Witness ==
    /\ net[1].pc = "dhcp"
    /\ net[1].rx_delta = -1624000
    /\ net[1].tx_delta = 624500
    /\ Len(net[1].network.interfaces) = 1
    /\ net[1].network.interfaces[1].name = "wan1"
    /\ net[1].network.interfaces[1].rxRate = 0
    /\ net[1].network.interfaces[1].txRate > 0
    /\ previous_interface_stats["wan1"] = [rx_bytes |-> 1000, tx_bytes |-> 625000]

\* C7: with overlapping invocations, a stored sample changes only in the one
\* step in which an invocation passes through its interface block; in that
\* step the rate it reports is computed from the sample stored just before
\* the step and the sample stored just after it is the one it observed, and
\* no other invocation moves: nothing is written between its read and its
\* write.
C7_AtomicUpdate ==
    [][\A n \in DOMAIN previous_interface_stats' :
          (\/ n \notin DOMAIN previous_interface_stats
           \/ previous_interface_stats'[n] # previous_interface_stats[n]) =>
             \E k \in Callers :
                /\ InterfaceStep(k)
                /\ \A j \in Callers \ {k} : net'[j] = net[j]
                /\ \E i \in 1..Len(net'[k].network.interfaces) :
                      LET e == net'[k].network.interfaces[i]
                          t == net'[k].time_delta_seconds
                      IN  /\ e.name = n
                          /\ previous_interface_stats'[n] =
                                [rx_bytes |-> e.rxBytes, tx_bytes |-> e.txBytes]
                          /\ n \in DOMAIN previous_interface_stats =>
                                LET p == previous_interface_stats[n]
                                IN  /\ e.rxRate =
                                          IF e.rxBytes >= p.rx_bytes
                                          THEN MbpsHundredths(e.rxBytes - p.rx_bytes, t)
                                          ELSE 0
                                    /\ e.txRate =
                                          IF e.txBytes >= p.tx_bytes
                                          THEN MbpsHundredths(e.txBytes - p.tx_bytes, t)
                                          ELSE 0
      ]_vars

\* C7 witness: two invocations in flight at once; caller 1 took its now
\* first but passed its interface block second, and its rate is computed
\* against the sample caller 2 stored in between.
C7_Witness ==
    /\ net[1].pc \in {"dhcp", "arp"}
    /\ net[2].pc \in {"dhcp", "arp"}
    /\ net[1].now < net[2].now
    /\ net[2].network.interfaces[1].rxBytes = 1000
    /\ net[1].network.interfaces[1].rxBytes = 1625000
    /\ net[1].network.interfaces[1].rxRate > 0
    /\ previous_interface_stats["wan1"].rx_bytes = 1625000

(***************************************************************************)
(* Claims about the adapters.                                              *)
(***************************************************************************)
\* The status the service-health adapter owes service j: down when no
\* response arrives, up for a response below 400, degraded from 400 on.
C12_Expected(j) ==
    LET check_url == CheckUrl(config.services[j])
    IN  IF "services" \in down \/ check_url \notin DOMAIN world.svcHttp
        THEN "down"
        ELSE IF world.svcHttp[check_url].status < 400 THEN "up"
        ELSE "degraded"

\* C12: every service check yields up for a response with status < 400
\* (a 3xx included: redirects are not followed), degraded for a response
\* with status >= 400, down when no response arrives (timeout or transport
\* failure), and no other value; the adapter returns these in the
\* configured order.
C12_ServiceClassification ==
    \A k \in Callers :
       /\ \A j \in 1..Len(dash[k].checks) :
             dash[k].checks[j] # None =>
                /\ dash[k].checks[j][1].status \in {"up", "degraded", "down"}
                /\ dash[k].checks[j][1].status = C12_Expected(j)
       /\ dash[k].pc = "done" =>
             /\ Len(dash[k].data.services.services) = Len(config.services)
             /\ \A j \in 1..Len(config.services) :
                   /\ dash[k].data.services.services[j].name
                         = config.services[j].name
                   /\ dash[k].data.services.services[j].status
                         = C12_Expected(j)

\* C12 witness: an assembly is done in which the first service answered
\* 301 and is up, the second answered 503 and is degraded, and the third
\* did not answer and is down.
C12_Witness ==
    /\ dash[1].pc = "done"
    /\ down = {}
    /\ DOMAIN world.svcHttp
          = {CheckUrl(config.services[1]), CheckUrl(config.services[2])}
    /\ world.svcHttp[CheckUrl(config.services[1])].status = 301
    /\ world.svcHttp[CheckUrl(config.services[2])].status = 503
    /\ [j \in 1..3 |-> dash[1].data.services.services[j].status]
          = <<"up", "degraded", "down">>

\* What the backing systems hold for the first configured node: its
\* readiness and the sample of a metric, if any.
C13_Status ==
    IF \E i \in 1..Len(world.k8sNodes) :
          world.k8sNodes[i].name = NodesConfigured[1].name
    THEN IF world.k8sNodes[1].conditions[2].status = "True"
         THEN "Ready" ELSE "NotReady"
    ELSE "Unknown"

C13_Sample(metric) ==
    LET series == SelectSeq(world.promSeries,
                     LAMBDA s : s.metric = metric
                                /\ s.instance = NodesConfigured[1].host)
    IN  IF series = <<>> THEN None ELSE Some(series[1].value)

\* C13: for every readiness in {Ready, NotReady, Unknown} and every
\* optional cpu, ram and disk value, node health is error when the node is
\* NotReady; otherwise unknown when there is no data on any of the three
\* metrics; otherwise warning when cpu >= 80 or ram >= 85; otherwise
\* healthy.
C13_AsClaimed ==
    \A k \in Callers : dash[k].pc = "done" =>
       LET cpu  == C13_Sample("cpu")
           ram  == C13_Sample("ram")
           disk == C13_Sample("disk")
       IN  dash[k].data.infrastructure.nodes[1].health =
              IF C13_Status = "NotReady" THEN "error"
              ELSE IF cpu = None /\ ram = None /\ disk = None THEN "unknown"
              ELSE IF (cpu # None /\ cpu[1] >= 8000)
                      \/ (ram # None /\ ram[1] >= 8500) THEN "warning"
              ELSE "healthy"

\* C13 witness: a Ready node with a disk sample and neither a cpu nor a ram
\* sample is reported with its disk usage and health unknown.
C13_Witness ==
    /\ dash[1].pc = "done"
    /\ C13_Status = "Ready"
    /\ C13_Sample("cpu") = None
    /\ C13_Sample("ram") = None
    /\ C13_Sample("disk") = Some(4200)
    /\ dash[1].data.infrastructure.nodes[1].disk = Some(420)
    /\ dash[1].data.infrastructure.nodes[1].health = "unknown"

\* The interface-table call gets a response with status 200 whose body
\* parses.
C14_InterfaceTableServed ==
    /\ "network" \notin down
    /\ "network" \notin world.malformed
    /\ "interface" \notin world.fwFail
    /\ "interface" \notin world.fwBadJson
    /\ world.fwHttp["interface"] = 200

\* C14: the rate tracker (stored samples and last poll instant) changes
\* only in the step in which a network-adapter invocation of an enabled
\* appliance feature, with a token and of the supported type, receives a
\* successful interface-table response; the steps of the other adapters,
\* of an invocation that returns the placeholder early and of the query
\* handlers themselves leave it as it is; and the registry changes only in
\* a step of a /ws connection, never in a step of a query.
C14_TrackerFrame ==
    [][/\ trackerVars' # trackerVars =>
             /\ config.firewall.enabled
             /\ FORTIGATE_API_KEY # ""
             /\ config.firewall.type = "fortigate"
             /\ C14_InterfaceTableServed
             /\ \E k \in Callers :
                   /\ net[k].pc = "interface" /\ net'[k].pc = "dhcp"
                   /\ \A j \in Callers \ {k} : net'[j] = net[j]
             /\ rest' = rest /\ dash' = dash /\ ws' = ws
       /\ (\E k \in Callers : net[k].pc = "idle" /\ net'[k].pc = "done") =>
             trackerVars' = trackerVars
       /\ active_connections' # active_connections =>
             /\ rest' = rest
             /\ \E k \in Callers : rest[k] = "none" /\ ws'[k].pc # ws[k].pc
      ]_vars

\* C14 witness: the tracker holds a sample written at the second poll
\* instant while caller 1 has a node query in flight and the connection of
\* caller 2 is registered.
C14_Witness ==
    /\ last_interface_poll = Some(SleepSeconds)
    /\ "wan1" \in DOMAIN previous_interface_stats
    /\ rest[1] = "nodes"
    /\ Registered(active_connections, 2)

\* The endpoint calls that fail: the request raises, the status is not 200
\* or the body does not parse.
C15_Failed ==
    {e \in FwEndpoints :
        \/ e \in world.fwFail
        \/ world.fwHttp[e] # 200
        \/ e \in world.fwBadJson}

C16_Fetched ==
    SubSeq(world.k8sEvents, 1,
           IF Len(world.k8sEvents) < 20 THEN Len(world.k8sEvents) ELSE 20)

C16_Instant(e) ==
    IF e.last_timestamp # None THEN e.last_timestamp[1]
    ELSE IF e.event_time # None THEN e.event_time[1]
    ELSE 0 - 1000000

C16_Source(entry) ==
    C16_Fetched[CHOOSE i \in 1..Len(C16_Fetched) :
                   C16_Fetched[i].reason = entry.reason]

\* C16: the activity list has at most 10 entries, one for each of the most
\* recent fetched events, in descending order of their timestamps; every
\* message is at most 80 characters long: a message of more than 80
\* characters is cut to its first 77 followed by "...", a shorter one is
\* unchanged.
C16_ActivityList ==
    \A k \in Callers : dash[k].pc = "done" =>
       LET activity == dash[k].data.activity
           shown    == {activity[p].reason : p \in 1..Len(activity)}
       IN  /\ Len(activity) <= 10
           /\ Len(activity) = IF Len(C16_Fetched) < 10 THEN Len(C16_Fetched) ELSE 10
           /\ Cardinality(shown) = Len(activity)
           /\ \A p \in 1..Len(activity) :
                 \E i \in 1..Len(C16_Fetched) :
                    C16_Fetched[i].reason = activity[p].reason
           /\ \A p, q \in 1..Len(activity) :
                 p < q => C16_Instant(C16_Source(activity[p]))
                             >= C16_Instant(C16_Source(activity[q]))
           /\ \A i \in 1..Len(C16_Fetched) :
                 C16_Fetched[i].reason \notin shown =>
                    \A p \in 1..Len(activity) :
                       C16_Instant(C16_Source(activity[p]))
                          >= C16_Instant(C16_Fetched[i])
           /\ \A p \in 1..Len(activity) :
                 LET message == C16_Source(activity[p]).message
                 IN  /\ Len(activity[p].message) <= 80
                     /\ Len(message) > 80 =>
                           activity[p].message =
                              SubSeq(message, 1, 77) \o <<".", ".", ".">>
                     /\ Len(message) <= 80 => activity[p].message = message

\* C16 witness: of 21 events the listing fetched 20 and the list shows 10;
\* among them one whose message of 120 characters was cut to 77 and the
\* marker, and one whose message of 80 characters is whole.
C16_Witness ==
    /\ dash[1].pc = "done"
    /\ Len(world.k8sEvents) = 21
    /\ Len(dash[1].data.activity) = 10
    /\ \E p \in 1..10 :
          /\ Len(C16_Source(dash[1].data.activity[p]).message) = 120
          /\ Len(dash[1].data.activity[p].message) = 80
          /\ SubSeq(dash[1].data.activity[p].message, 78, 80) = <<".", ".", ".">>
    /\ \E p \in 1..10 :
          /\ Len(C16_Source(dash[1].data.activity[p]).message) = 80
          /\ dash[1].data.activity[p].message
                = C16_Source(dash[1].data.activity[p]).message

\* The categories in the fixed order, whether a category's keyword list has
\* a keyword occurring in a name whatever the case of its letters, and the
\* categories worked out by hand for the names of AlertNames that match
\* several lists, need lower-casing or match none.
C17_Order == <<"resources", "kubernetes", "infrastructure", "network">>

C17_Matches(alertname, i) ==
    \E kw \in AlertKeywords[i].keywords : Contains(lower(alertname), kw)

C17_ByHand ==
    <<<<<<"H", "i", "g", "h", "C", "P", "U", "U", "s", "a", "g", "e">>, "resources">>,
      <<<<"N", "o", "d", "e", "M", "e", "m", "o", "r", "y", "P", "r", "e", "s", "s", "u", "r", "e">>, "resources">>,
      <<<<"P", "o", "d", "D", "i", "s", "k", "F", "u", "l", "l">>, "resources">>,
      <<<<"P", "r", "o", "g", "r", "a", "m", "E", "r", "r", "o", "r">>, "resources">>,
      <<<<"K", "u", "b", "e", "N", "o", "d", "e", "N", "o", "t", "R", "e", "a", "d", "y">>, "kubernetes">>,
      <<<<"C", "o", "n", "t", "a", "i", "n", "e", "r", "H", "T", "T", "P", "E", "r", "r", "o", "r", "s">>, "kubernetes">>,
      <<<<"H", "o", "s", "t", "H", "T", "T", "P", "L", "a", "t", "e", "n", "c", "y">>, "infrastructure">>,
      <<<<"I", "n", "s", "t", "a", "n", "c", "e", "N", "e", "t", "w", "o", "r", "k", "D", "o", "w", "n">>, "infrastructure">>,
      <<<<"D", "N", "S", "L", "a", "t", "e", "n", "c", "y">>, "network">>,
      <<<<"T", "C", "P", "C", "o", "n", "n", "e", "c", "t", "i", "o", "n", "R", "e", "s", "e", "t">>, "network">>,
      <<<<"W", "a", "t", "c", "h", "d", "o", "g">>, "general">>,
      <<<<>>, "general">>>>

\* C17: every alert gets the first category, in the order resources,
\* kubernetes, infrastructure, network, one of whose keywords occurs in its
\* name case-insensitively, and general when no keyword does; a name that
\* matches keywords of several categories gets the earliest of them.
C17_FirstCategoryWins ==
    \A k \in Callers : dash[k].pc = "done" =>
       \A a \in 1..Len(dash[k].data.alerts.items) :
          LET alert == dash[k].data.alerts.items[a]
          IN  /\ [i \in 1..4 |-> AlertKeywords[i].category] = C17_Order
              /\ \A i \in 1..4 :
                    (C17_Matches(alert.alertname, i)
                     /\ \A j \in 1..(i - 1) : ~C17_Matches(alert.alertname, j))
                       => alert.category = C17_Order[i]
              /\ (\A i \in 1..4 : ~C17_Matches(alert.alertname, i))
                    => alert.category = "general"
              /\ \A h \in 1..Len(C17_ByHand) :
                    alert.alertname = C17_ByHand[h][1]
                       => alert.category = C17_ByHand[h][2]

\* C17 witness: an assembly shows NodeMemoryPressure, which matches the
\* infrastructure and the resources lists, under resources, and
\* HostHTTPLatency, which matches the infrastructure and the network lists,
\* under infrastructure.
C17_Witness ==
    /\ dash[1].pc = "done"
    /\ Len(dash[1].data.alerts.items) = 2
    /\ dash[1].data.alerts.items[1].alertname = <<"N", "o", "d", "e", "M", "e", "m", "o", "r", "y", "P", "r", "e", "s", "s", "u", "r", "e">>
    /\ dash[1].data.alerts.items[1].category = "resources"
    /\ dash[1].data.alerts.items[2].alertname = <<"H", "o", "s", "t", "H", "T", "T", "P", "L", "a", "t", "e", "n", "c", "y">>
    /\ dash[1].data.alerts.items[2].category = "infrastructure"

(***************************************************************************)
(* More claims about the assembler.                                        *)
(***************************************************************************)
\* The adapters invocation k of the assembler has invoked.
C18_Invoked(k) == {dash[k].tasks[i] : i \in 1..Len(dash[k].tasks)}

\* C18: an assembly invokes the service-health adapter in every
\* configuration, the node-metrics and alert adapters exactly when the
\* metrics feature is enabled, the cluster and activity adapters exactly
\* when the cluster feature is enabled and the network adapter exactly when
\* the appliance feature is enabled, each once; the network adapter of a
\* disabled appliance feature is never started.
C18_InvokedAdapters ==
    \A k \in Callers :
       /\ dash[k].pc # "idle" =>
             /\ C18_Invoked(k) =
                   {"services"}
                   \cup (IF config.prometheus.enabled
                         THEN {"nodes", "alerts"} ELSE {})
                   \cup (IF config.kubernetes.enabled
                         THEN {"cluster", "activity"} ELSE {})
                   \cup (IF config.firewall.enabled THEN {"network"} ELSE {})
             /\ Cardinality(C18_Invoked(k)) = Len(dash[k].tasks)
             /\ dash[k].pc \in {"gather", "done"} =>
                   Len(dash[k].results) = Len(dash[k].tasks)
       /\ ~config.firewall.enabled => net[k] = NetIdle

\* C18 witness: an assembly is done for which, with the metrics and the
\* appliance features enabled and the cluster feature disabled, the
\* service-health, node-metrics, alert and network adapters were invoked.
C18_Witness ==
    /\ dash[1].pc = "done"
    /\ config.prometheus.enabled
    /\ ~config.kubernetes.enabled
    /\ config.firewall.enabled
    /\ dash[1].tasks = <<"services", "nodes", "alerts", "network">>
    /\ dash[1].data.network.available

\* The result of the adapter invocation k invoked under the given name.
C19_ResultOf(k, name) ==
    dash[k].results[CHOOSE i \in 1..Len(dash[k].tasks) :
                       dash[k].tasks[i] = name][1].value

\* C19: in each of the 8 feature combinations the merge puts every
\* adapter's own result under its own key: the service-health result in
\* services, the node-metrics result in infrastructure.nodes, the alert
\* result in alerts.items with alerts.count its length, the cluster result
\* in infrastructure.cluster, the activity result in activity and the
\* network result in network; and it reads no index past the end of the
\* results.
C19_PositionalMerge ==
    \A k \in Callers : dash[k].pc = "done" =>
       LET data == dash[k].data
           last == Len(dash[k].results)
       IN  /\ IdxServices <= last
           /\ data.services = C19_ResultOf(k, "services")
           /\ config.prometheus.enabled =>
                 /\ IdxNodes <= last /\ IdxAlerts <= last
                 /\ data.infrastructure.nodes = C19_ResultOf(k, "nodes")
                 /\ data.alerts.items = C19_ResultOf(k, "alerts")
                 /\ data.alerts.count = Len(C19_ResultOf(k, "alerts"))
           /\ config.kubernetes.enabled =>
                 /\ IdxCluster <= last /\ IdxActivity <= last
                 /\ data.infrastructure.cluster = C19_ResultOf(k, "cluster")
                 /\ data.activity = C19_ResultOf(k, "activity")
           /\ config.firewall.enabled =>
                 /\ IdxNetwork <= last
                 /\ data.network = C19_ResultOf(k, "network")
           /\ DOMAIN data.services
                 = {"services", "healthScore", "upCount", "totalCount"}
           /\ \A i \in 1..Len(data.infrastructure.nodes) :
                 "health" \in DOMAIN data.infrastructure.nodes[i]
           /\ \A i \in 1..Len(data.alerts.items) :
                 "category" \in DOMAIN data.alerts.items[i]
           /\ DOMAIN data.infrastructure.cluster
                 = {"pods", "namespaces", "nodes", "nodesReady"}
           /\ \A i \in 1..Len(data.activity) :
                 "reason" \in DOMAIN data.activity[i]
           /\ DOMAIN data.network = DOMAIN NetworkInit

\* C19 witness: an assembly with the three features enabled and every
\* backing system answering is done: two services, three nodes, two alerts,
\* five pods, three events and the appliance's hostname are each under
\* their own key.
C19_Witness ==
    /\ dash[1].pc = "done"
    /\ Len(dash[1].tasks) = 6
    /\ dash[1].data.services.totalCount = 2
    /\ Len(dash[1].data.infrastructure.nodes) = 3
    /\ dash[1].data.infrastructure.nodes[1].name = "node1"
    /\ dash[1].data.alerts.count = 2
    /\ dash[1].data.infrastructure.cluster.pods.total = 5
    /\ Len(dash[1].data.activity) = 3
    /\ dash[1].data.network.firewall.hostname = "fw01"

(***************************************************************************)
(* More claims about the rate tracker.                                     *)
(***************************************************************************)
\* The elapsed time the claim gives an invocation whose now is the given
\* instant: the time since the last poll instant, at least one second.
C20_Elapsed(now) ==
    IF now - last_interface_poll[1] >= 1 THEN now - last_interface_poll[1]
    ELSE 1

\* C20: when an interface with a stored sample is observed after an
\* earlier poll, the rate of each direction whose counter did not go down
\* is delta * 8 / (elapsed * 1,000,000) rounded to 2 decimals, with delta
\* the observed minus the stored counter and elapsed the time from the
\* last poll instant to the invocation's now, taken as 1 second when that
\* is less, also when now is at or before the last poll instant.
C20_RateFormula ==
    [][\A k \in Callers :
          (InterfaceStep(k) /\ last_interface_poll # None) =>
             /\ net'[k].time_delta_seconds = C20_Elapsed(net[k].now)
             /\ net'[k].time_delta_seconds >= 1
             /\ \A i \in 1..Len(net'[k].network.interfaces) :
                   LET e == net'[k].network.interfaces[i]
                   IN  e.name \in DOMAIN previous_interface_stats =>
                          LET stored   == previous_interface_stats[e.name]
                              rx_delta == e.rxBytes - stored.rx_bytes
                              tx_delta == e.txBytes - stored.tx_bytes
                          IN  /\ rx_delta >= 0 =>
                                    e.rxRate = MbpsHundredths(rx_delta,
                                                  C20_Elapsed(net[k].now))
                              /\ tx_delta >= 0 =>
                                    e.txRate = MbpsHundredths(tx_delta,
                                                  C20_Elapsed(net[k].now))
      ]_vars

\* C20 witness: caller 1, whose invocation began at instant 0, observed
\* wan1 after caller 2, whose invocation began at instant 5, had polled:
\* its elapsed time is 1 second and the deltas 1624000 and 624500 are
\* reported as 12.99 and 5.00 Mbps.
C20_Witness ==
    /\ net[1].pc = "dhcp" /\ net[1].now = 0
    /\ net[2].pc = "dhcp" /\ net[2].now = SleepSeconds
    /\ last_interface_poll = Some(0)
    /\ net[1].time_delta_seconds = 1
    /\ net[1].rx_delta = 1624000
    /\ net[1].tx_delta = 624500
    /\ net[1].network.interfaces[1].rxRate = 1299
    /\ net[1].network.interfaces[1].txRate = 500

\* C21: within one network-adapter invocation every interface is rated
\* over the same elapsed value, and an invocation that stores an interface
\* sample writes the last poll instant, once, after its interfaces and to
\* its own now: stored samples and last poll instant change together.
C21_AsClaimed ==
    [][\A k \in Callers : InterfaceStep(k) =>
          /\ \A i \in 1..Len(net'[k].network.interfaces) :
                LET e == net'[k].network.interfaces[i]
                IN  /\ e.name \in DOMAIN previous_interface_stats'
                    /\ last_interface_poll' = Some(net[k].now)
          /\ previous_interface_stats' # previous_interface_stats =>
                last_interface_poll' = Some(net[k].now)
      ]_vars

\* C21 witness: an invocation served a table whose entry after wan1 is no
\* object has stored wan1's sample and reports wan1, and no last poll
\* instant is stored.
C21_Witness ==
    /\ world.fwMalformed
    /\ net[1].pc = "dhcp"
    /\ Len(net[1].network.interfaces) = 1
    /\ net[1].network.interfaces[1].name = "wan1"
    /\ "wan1" \in DOMAIN previous_interface_stats
    /\ last_interface_poll = None

\* C22: whatever the sequence and interleaving of network-adapter
\* invocations, the last poll instant never decreases: every write sets it
\* to an instant not earlier than the one it replaces.
C22_AsClaimed ==
    [][(last_interface_poll # None /\ last_interface_poll' # None) =>
          last_interface_poll'[1] >= last_interface_poll[1]
      ]_vars

\* C22 witness: two overlapping invocations have returned.  Caller 1 took
\* its now at instant 0 and caller 2 at instant 5; caller 2 polled first
\* (it found no last poll instant) and caller 1 after it (it found one not
\* before its own now), and the stored instant is caller 1's, 0.
C22_Witness ==
    /\ clock = SleepSeconds
    /\ net[1].pc = "done" /\ net[1].now = 0
    /\ net[2].pc = "done" /\ net[2].now = SleepSeconds
    /\ net[2].time_delta_seconds = 5
    /\ net[1].time_delta_seconds = 1
    /\ Len(net[1].network.interfaces) = 1
    /\ Len(net[2].network.interfaces) = 1
    /\ last_interface_poll = Some(0)

(***************************************************************************)
(* More claims about the connection loop and the registry.                 *)
(***************************************************************************)
\* The sends a broadcast made to channel k.
C23_Attempts(attempts, k) ==
    Cardinality({i \in 1..Len(attempts) : attempts[i].channel = k})

\* C23: a broadcast attempts one send to every channel registered for its
\* whole duration, also when other channels are deregistered by their own
\* loops while it is suspended in a send: when it returns, every channel
\* still registered has been sent to once, and no channel twice.
C23_AsClaimed ==
    [][(bcast.pc = "sending" /\ bcast'.pc = "returned") =>
          \A k \in Callers :
             /\ C23_Attempts(bcast'.attempts, k) <= 1
             /\ Registered(active_connections, k) =>
                   C23_Attempts(bcast'.attempts, k) = 1
      ]_vars

\* C23 witness: a broadcast over channels 1 and 2 is suspended in its send
\* to channel 1, the first the iterator handed out; meanwhile the loop of
\* channel 1 has closed and left the registry, which now holds channel 2
\* alone, at the position the iterator has passed.
C23_Witness ==
    /\ bcast.pc = "sending"
    /\ bcast.connection = 1
    /\ bcast.i = 1
    /\ bcast.attempts = <<>>
    /\ ws[1].pc = "closed"
    /\ ws[2].pc \in WsOpen
    /\ active_connections = <<2>>

\* How often channel k is in the registry.
C24_Entries(k) ==
    Cardinality({i \in 1..Len(active_connections) : active_connections[i] = k})

\* C24: the registry holds exactly the channels whose connection loop is
\* Open, each once: a channel that was never opened, whose accept() is
\* pending or failed, or whose loop has exited is not in it.
C24_RegistryIsOpenLoops ==
    \A k \in Callers :
       C24_Entries(k) = (IF ws[k].pc \in WsOpen THEN 1 ELSE 0)

\* C24 witness: channel 1 has left through a failed send after it was served
\* once, channel 2 registered after it and sleeps between two snapshots.
C24_Witness ==
    /\ ws[1].pc = "closed"
    /\ ws[1].gone
    /\ Len(ws[1].received) = 1
    /\ ws[2].pc = "sleeping"
    /\ Len(ws[2].received) = 1
    /\ active_connections = <<2>>

\* The moves of an Open connection's loop: the cycle, and the exits from an
\* assembly that raised and from a send that failed.
C25_Moves ==
    {<<"assembling", "sending">>, <<"sending", "sleeping">>,
     <<"sleeping", "assembling">>,
     <<"assembling", "closed">>, <<"sending", "closed">>}

\* C25: an Open connection's loop goes assemble, send, sleep, and again: it
\* starts a send only when every task of the assembly it started in this
\* cycle has settled, and sends the snapshot that assembly returned; after a
\* send it sleeps its 5 seconds and starts a new assembly before the next
\* send, so the snapshots one client receives are at least 5 seconds apart.
C25_CycleOrder ==
    [][\A k \in Callers :
          /\ (ws[k].pc \in WsOpen /\ ws'[k].pc # ws[k].pc) =>
                <<ws[k].pc, ws'[k].pc>> \in C25_Moves
          /\ (ws[k].pc = "assembling" /\ ws'[k].pc = "sending") =>
                /\ dash[k].pc = "done"
                /\ Len(dash[k].results) = Len(dash[k].tasks)
                /\ \A i \in 1..Len(dash[k].results) : dash[k].results[i] # None
                /\ ws'[k].data = dash[k].data
                /\ ws[k].received # <<>> =>
                      dash[k].data.timestamp >=
                         ws[k].received[Len(ws[k].received)] + SleepSeconds
          /\ (ws[k].pc = "sending" /\ ws'[k].pc = "sleeping") =>
                /\ ws'[k].received = Append(ws[k].received, ws[k].data.timestamp)
                /\ ws'[k].wake = clock + SleepSeconds
          /\ ws'[k].received # ws[k].received =>
                (ws[k].pc = "sending" /\ ws'[k].pc = "sleeping")
          /\ (ws[k].pc = "sleeping" /\ ws'[k].pc = "assembling") =>
                /\ clock >= ws[k].wake
                /\ dash[k] = DashIdle
                /\ dash'[k] = GetDashboardStart
      ]_vars

\* C25 witness: client 1 has received two snapshots, assembled at 0 and at
\* 5 seconds, and its loop sleeps after the second.
C25_Witness ==
    /\ ws[1].pc = "sleeping"
    /\ ~ws[1].gone
    /\ ws[1].received = <<0, SleepSeconds>>
    /\ ws[1].wake = 2 * SleepSeconds
    /\ dash[1] = DashIdle

\* C26: with every ready task run, every awaited call settling and time
\* going on, a connection that stays Open for ever is sent a snapshot again
\* and again, whatever the other connections do, and an Open connection
\* whose client has gone (its next send fails) gets to Closed.
C26_Liveness ==
    \A k \in Callers :
       /\ <>[](ws[k].pc \in WsOpen) =>
             ([]<>(ws[k].pc = "sending") /\ []<>(ws[k].pc = "sleeping"))
       /\ (ws[k].pc \in WsOpen /\ ws[k].gone) ~> (ws[k].pc = "closed")

\* C26 witness: the observation has started over at least once while client
\* 1 stayed connected (it sleeps after a send that is no longer in its log),
\* and client 2 was closed after it went away.
C26_Witness ==
    /\ ws[1].pc = "sleeping"
    /\ ~ws[1].gone
    /\ ws[1].received = <<>>
    /\ ws[2].pc = "closed"
    /\ ws[2].gone

(***************************************************************************)
(* Claims about the cluster adapter, the service checks and the ages.      *)
(***************************************************************************)
\* The pods of the cluster in one of the given phases.
C27_Pods(phases) ==
    Cardinality({i \in DOMAIN world.k8sPods : world.k8sPods[i].phase \in phases})

\* The nodes of the cluster with a condition Ready of status True.
C27_NodesReady ==
    Cardinality({n \in DOMAIN world.k8sNodes :
       \E c \in DOMAIN world.k8sNodes[n].conditions :
          /\ world.k8sNodes[n].conditions[c].type = "Ready"
          /\ world.k8sNodes[n].conditions[c].status = "True"})

C28_Entry(j) ==
    LET service == config.services[j]
        check_url == CheckUrl(service)
        answers == "services" \notin down /\ check_url \in DOMAIN world.svcHttp
    IN  [name |-> service.name,
         url |-> IF service.host # <<>>
                 THEN <<"h", "t", "t", "p", ":", "/", "/">> \o service.host
                 ELSE service.url,
         status |-> IF ~answers THEN "down"
                    ELSE IF world.svcHttp[check_url].status < 400 THEN "up"
                    ELSE "degraded",
         responseTime |-> IF answers /\ world.svcHttp[check_url].millis # 0
                          THEN Some(world.svcHttp[check_url].millis)
                          ELSE None]

\* C28: the service-health result has one entry per configured service, in
\* the configured order, in whatever order the checks completed; an entry
\* is settled by its own service's answer alone, so a check that fails
\* changes no other entry; totalCount is the number of configured services
\* and upCount the number of entries with status up, at most totalCount.
C28_ServiceResult ==
    /\ \A j \in 1..Len(dash[1].checks) :
          dash[1].checks[j] # None => dash[1].checks[j][1] = C28_Entry(j)
    /\ dash[1].pc = "done" =>
          LET result == dash[1].data.services
          IN  /\ result.services = [j \in 1..Len(config.services) |-> C28_Entry(j)]
              /\ result.totalCount = Len(config.services)
              /\ result.upCount =
                    Cardinality({j \in 1..Len(result.services) :
                                    result.services[j].status = "up"})
              /\ result.upCount <= result.totalCount

\* C28 witness: of three services the second did not answer and the third
\* answered with an error status; the result lists the three in order and
\* counts one of three up.
C28_Witness ==
    /\ dash[1].pc = "done"
    /\ down = {}
    /\ [j \in 1..3 |-> dash[1].data.services.services[j].name]
          = [j \in 1..3 |-> ServicesThree[j].name]
    /\ [j \in 1..3 |-> dash[1].data.services.services[j].status]
          = <<"up", "down", "degraded">>
    /\ dash[1].data.services.upCount = 1
    /\ dash[1].data.services.totalCount = 3

\* The age in whole seconds of the one event of the cluster.
C29_Age ==
    LET event == world.k8sEvents[1]
    IN  clock - (IF event.last_timestamp # None THEN event.last_timestamp[1]
                 ELSE event.event_time[1])

\* Ages formatted by hand.
C29_ByHand ==
    [s \in {-86400, -1, 0, 1, 59, 60, 61, 119, 120, 3599, 3600, 3601, 7199,
            7200, 86399, 86400, 86401, 172799, 172800, 8640000} |->
       CASE s = -86400 -> "0s"  [] s = -1 -> "0s"      [] s = 0 -> "0s"
         [] s = 1 -> "1s"       [] s = 59 -> "59s"     [] s = 60 -> "1m"
         [] s = 61 -> "1m"      [] s = 119 -> "1m"     [] s = 120 -> "2m"
         [] s = 3599 -> "59m"   [] s = 3600 -> "1h"    [] s = 3601 -> "1h"
         [] s = 7199 -> "1h"    [] s = 7200 -> "2h"    [] s = 86399 -> "23h"
         [] s = 86400 -> "1d"   [] s = 86401 -> "1d"   [] s = 172799 -> "1d"
         [] s = 172800 -> "2d"  [] s = 8640000 -> "100d"]

\* C29: an age of s whole seconds is formatted as s and 's' below 60, as
\* s div 60 and 'm' from 60 to below 3600, as s div 3600 and 'h' from 3600
\* to below 86400, as s div 86400 and 'd' from there on, and as '0s' when it
\* is negative (the event's timestamp is in the future).
C29_AgeFormat ==
    dash[1].pc = "done" =>
       LET s == C29_Age
           time == dash[1].data.activity[1].time
       IN  /\ Len(dash[1].data.activity) = 1
           /\ s < 0 => time = "0s"
           /\ (0 <= s /\ s < 60) => time = ToString(s) \o "s"
           /\ (60 <= s /\ s < 3600) => time = ToString(s \div 60) \o "m"
           /\ (3600 <= s /\ s < 86400) => time = ToString(s \div 3600) \o "h"
           /\ 86400 <= s => time = ToString(s \div 86400) \o "d"
           /\ s \in DOMAIN C29_ByHand => time = C29_ByHand[s]

\* C29 witness: an event one second short of two days old is answered as
\* one day old.
C29_Witness ==
    /\ dash[1].pc = "done"
    /\ C29_Age = 172799
    /\ Len(dash[1].data.activity) = 1
    /\ dash[1].data.activity[1].time = "1d"

====
